---- MODULE Spec2Model ----
(***************************************************************************)
(* State-machine model of the conviction oracle (asdf-oracle).             *)
(*                                                                         *)
(* The process is a single Node.js event loop.  The Store is a synchronous *)
(* SQLite handle, so an `await` on a Store call only yields to the         *)
(* microtask queue: a chain of Store calls runs to completion before any   *)
(* other timer or request callback starts.  Every action below is one such *)
(* run-to-completion stretch; an action boundary is placed wherever the    *)
(* code awaits real I/O (an upstream RPC, a timer).                        *)
(***************************************************************************)
EXTENDS Integers, Sequences, FiniteSets, TLC

(***************************************************************************)
(* Bounds of the model.                                                    *)
(***************************************************************************)
MaxSlot == 2
MaxAmt == 1
MaxBatch == 2
MaxOps == 3
MaxCalcAmt == 3
MaxHolding == 2
MaxLoops == 2
MaxEnq == 1
TickStep == 200
MaxNow == 400
MaxReqs == 5
MaxTime == 12
MaxRuns == 2
MaxDeliveries == 2
MaxHookNow == 390
MaxSockets == 4
MaxBuf == 7
MaxHttpReqs == 2
MaxKeyOps == 3
KeyStep == 150
MaxKeyNow == 600
KeyExpiresAt == 200
MaxTokenLoops == 2
MaxTokenReqs == 2
TokenStep == 350
TokenEpoch == 4000
MaxTokenNow == 4700
MaxMemOps == 5
MemStep == 200
MaxMemNow == 400
WsStep == 30
RateLimitWindow == 2
CleanupEvery == 10
DayLength == 20
PublicPerMinute == 2
PublicPerDay == 4
FreePerMinute == 3
FreePerDay == 6

\* rateLimitId of a request: the client IP, or the id of its validated API key.
Identifiers == {"ip", "key"}

Wallets == {"W1", "W2"}
Sigs == {"S1", "S2"}
Sockets == 1..MaxSockets
NoAcct == "none"
NoSig == "null"
NULL == -1

Accts == Wallets \cup {NoAcct}

Max(a, b) == IF a >= b THEN a ELSE b

(***************************************************************************)
(* The chain: what the upstream indexer reports for each signature.  One   *)
(* token transfer of the primary mint per signature; blockTime is present. *)
(***************************************************************************)
Transfers ==
    { t \in [slot : 1..MaxSlot, from : Accts, to : Accts, amount : 1..MaxAmt] :
        t.from # t.to }

BlockTime(t) == 1000 + t.slot

VARIABLES
    ledger,         \* Sigs -> Transfers: the chain's content, fixed over a behaviour
    wallets,        \* table wallets: address -> row
    transactions,   \* table transactions: signature key -> row
    kQueue,         \* table k_wallet_queue: address -> row
    oneUsdThreshold,\* sync_state['one_usd_threshold'], NULL when unset
    isPolling,      \* sync.js module flag
    pullLastSlot,   \* fetchNewTransactions' local lastSlot while the RPCs are in flight
    now,            \* wall clock, seconds
    opsLeft,        \* remaining requests of the behaviour (bound)
    applied,        \* history: <<sig, wallet>> -> number of wallet writes made for that change
    wslot,          \* history: wallet -> [last, max] slot of the changes that wrote its row
    batchSlots,     \* history: the slots of the changes the last batch applied, in order
    holderLog,      \* history: for the wallet writes of the last batch, whether the
                    \* balance was and is positive, and the holder event broadcast
    hadPositive,    \* history: wallets that have had a positive delta applied
    lastK,          \* calculator.js module variable lastK, NULL before the first save
    snapshots,      \* table snapshots (append-only)
    kResult         \* the last K result returned to a caller, NoResult before any

VARIABLES
    workerRunning,  \* wallet-score module flag workerRunning
    loops,          \* the processWorkerLoop() invocations: loop id -> [pc, key, slot]
    lastStaleCheck, \* wallet-score module variable lastStaleCheck, NULL for its initial 0
    backfillTimers, \* pending setTimeout(backfillAllHolders) callbacks
    kwCols,         \* columns k_wallet, k_wallet_updated_at, k_wallet_slot of table wallets
    enqueued,       \* history: address -> Enqueue calls made for it by the queue actions
    completed,      \* history: address -> number of Complete calls for it
    owed,           \* history: the keys the queue actions enqueued since their last
                    \* computation started (a key that Cleanup drops leaves the set)
    calcHist        \* history: address -> [score: the k_wallet of its last Complete,
                    \* computed, maxPrio, lastPrio: the computations begun, the
                    \* greatest and the latest priority enqueued for it since its
                    \* queue row was inserted]

VARIABLES
    rateLimitsV2,   \* security.js Map rateLimitsV2: identifier -> entry
    nextCleanup,    \* the next firing time of the cleanup setInterval
    allowedAt,      \* history: identifier -> the times of its allowed responses
    reqLog          \* history: identifier -> the rate-limit verdicts of its requests

VARIABLES
    polls           \* fetchNewTransactions activations that are past the isPolling guard

VARIABLES
    subs,           \* table webhook_subscriptions: id -> row
    deliveries,     \* table webhook_deliveries: id (1..Len) -> row
    runs,           \* processDeliveries activations: run -> the snapshot rows still to send
    hookLog         \* history: delivery id -> [sends, failIncs, oks] of its POSTs

VARIABLES
    clients,        \* websocket.js Map clients: socket -> meta
    keyConnections, \* websocket.js Map keyConnections: apiKey -> set of sockets
    heartbeatIn,    \* seconds to the next heartbeat callback, NULL when heartbeatTimer is null
    closing,        \* sockets with a pending 100 ms destroy timer
    fresh,          \* sockets whose upgrade request has not arrived yet
    wire,           \* what the last step wrote: [to: socket -> frames, minTier]
    buffer,         \* socket -> the bytes of client.buffer
    rx              \* history: the last 'data' event, [data, frames dispatched]

VARIABLES
    env,            \* process.env as read at start-up: [secret, production, failClosed]
    resp            \* history: the last HTTP request and its response

VARIABLES
    apiKeys,        \* table api_keys: key -> row
    apiKeyCache,    \* cache.js apiKeyCache: key -> <<>> or <<[value, expiresAt]>>
    keyLog          \* history: the last validateApiKey call, [n, key, accepted]

VARIABLES
    tokens,             \* table tokens: mint -> [k, last_sync, sync_status]
    tokenQueue,         \* table token_queue: mint -> row
    tokenLoops,         \* token-score processWorkerLoop() invocations: id -> [pc, key]
    tokenWorkerRunning, \* token-score module flag workerRunning
    tokenReqsLeft,      \* remaining getTokenK requests of the behaviour (bound)
    tokenResp           \* history: the last getTokenK answer, [mint, status]

VARIABLES
    walletCache,        \* wallet-score Map `cache`: address -> calculated_at, NULL if absent
    walletQueue,        \* wallet-score Map `queue`, in insertion order:
                        \* <<[address, status, started_at], ...>>
    activeCalculations, \* wallet-score module variable activeCalculations
    inFlight,           \* the calculateWalletKScoreInternal promises not yet settled:
                        \* <<[address, started_at], ...>>
    memOpsLeft          \* remaining calls of the behaviour (bound)

httpVars == <<env, resp>>

tokenVars == <<tokens, tokenQueue, tokenLoops, tokenWorkerRunning, tokenReqsLeft,
               tokenResp>>

keyVars == <<apiKeys, apiKeyCache, keyLog>>

memVars == <<walletCache, walletQueue, activeCalculations, inFlight, memOpsLeft>>

lateVars == <<keyVars, tokenVars, memVars>>

hookVars == <<subs, deliveries, runs, hookLog>>

wsVars == <<clients, keyConnections, heartbeatIn, closing, fresh, wire, buffer, rx>>

workerVars == <<workerRunning, loops, lastStaleCheck, backfillTimers, kwCols,
                enqueued, completed, owed, calcHist>>

rateVars == <<rateLimitsV2, nextCleanup, allowedAt, reqLog>>

vars == <<ledger, wallets, transactions, kQueue, oneUsdThreshold, isPolling,
          pullLastSlot, now, opsLeft, applied, wslot, batchSlots, holderLog, hadPositive, lastK, snapshots,
          kResult, workerVars, rateVars, polls, hookVars, wsVars, httpVars, lateVars>>

\* What the actions of the K_wallet queue leave alone.
quietForQueue == <<ledger, wallets, transactions, oneUsdThreshold, isPolling,
                   pullLastSlot, applied, wslot, batchSlots, holderLog, hadPositive, lastK,
                   snapshots, kResult, rateVars, polls, hookVars, wsVars, httpVars, lateVars>>

\* What the actions of the rate limiter leave alone.
quietForRate == <<ledger, wallets, transactions, kQueue, oneUsdThreshold, isPolling,
                  pullLastSlot, applied, wslot, batchSlots, holderLog, hadPositive, lastK,
                  snapshots, kResult, workerVars, polls, hookVars, wsVars, httpVars, lateVars>>

(***************************************************************************)
(* Store: wallets                                                          *)
(***************************************************************************)

\* A faulty upsertWallet: the ON CONFLICT branch overwrites peak_balance with the
\* new balance instead of keeping the larger of the two.
upsertWalletPeakReplaced(ws, wallet) ==
    LET a == wallet.address
        row == [first_buy_ts |-> wallet.firstBuyTs,
                first_buy_amount |-> wallet.firstBuyAmount,
                total_received |-> wallet.received,
                total_sent |-> wallet.sent,
                current_balance |-> wallet.balance,
                peak_balance |-> wallet.balance,
                last_tx_signature |-> wallet.lastTxSig]
    IN  IF a \notin DOMAIN ws
        THEN ws @@ (a :> row)
        ELSE [ws EXCEPT ![a] =
                [row EXCEPT !.first_buy_ts = IF ws[a].first_buy_ts # NULL
                                             THEN ws[a].first_buy_ts ELSE wallet.firstBuyTs,
                            !.first_buy_amount = IF ws[a].first_buy_ts = NULL
                                                 THEN wallet.firstBuyAmount
                                                 ELSE ws[a].first_buy_amount,
                            !.total_received = ws[a].total_received + wallet.received,
                            !.total_sent = ws[a].total_sent + wallet.sent]]

\* INSERT ... ON CONFLICT(address) DO UPDATE of upsertWallet, on the table `ws`.
upsertWallet(ws, wallet) ==
    LET a == wallet.address
        balance == wallet.balance
    IN  IF a \notin DOMAIN ws
        THEN ws @@ (a :> [first_buy_ts |-> wallet.firstBuyTs,
                          first_buy_amount |-> wallet.firstBuyAmount,
                          total_received |-> wallet.received,
                          total_sent |-> wallet.sent,
                          current_balance |-> balance,
                          peak_balance |-> balance,
                          last_tx_signature |-> wallet.lastTxSig])
        ELSE LET old == ws[a]
             IN  [ws EXCEPT ![a] =
                    [first_buy_ts |-> IF old.first_buy_ts # NULL
                                      THEN old.first_buy_ts ELSE wallet.firstBuyTs,
                     first_buy_amount |-> IF old.first_buy_ts = NULL
                                          THEN wallet.firstBuyAmount
                                          ELSE old.first_buy_amount,
                     total_received |-> old.total_received + wallet.received,
                     total_sent |-> old.total_sent + wallet.sent,
                     current_balance |-> balance,
                     peak_balance |-> IF balance > old.peak_balance
                                      THEN balance ELSE old.peak_balance,
                     last_tx_signature |-> wallet.lastTxSig]]

\* db.updateWalletBalance: balance-only upsert that tracks the peak.
dbUpdateWalletBalance(ws, address, newBalance) ==
    IF address \notin DOMAIN ws
    THEN ws @@ (address :> [first_buy_ts |-> NULL,
                            first_buy_amount |-> 0,
                            total_received |-> 0,
                            total_sent |-> 0,
                            current_balance |-> newBalance,
                            peak_balance |-> newBalance,
                            last_tx_signature |-> NoSig])
    ELSE [ws EXCEPT ![address].current_balance = newBalance,
                    ![address].peak_balance =
                        IF newBalance > @ THEN newBalance ELSE @]

(***************************************************************************)
(* Store: transactions                                                     *)
(***************************************************************************)

\* A faulty recordTransaction: the table is emptied before the insert.
recordTransactionReplacing(txs, tx) ==
    (tx.signature :> [slot |-> tx.slot, block_time |-> tx.blockTime,
                      wallet |-> tx.wallet, amount_change |-> tx.amountChange])

\* INSERT OR IGNORE: an existing signature key leaves the table as it is.
\* Nothing is returned to the caller.
recordTransaction(txs, tx) ==
    IF tx.signature \in DOMAIN txs
    THEN txs
    ELSE txs @@ (tx.signature :> [slot |-> tx.slot, block_time |-> tx.blockTime,
                                  wallet |-> tx.wallet, amount_change |-> tx.amountChange])

RECURSIVE SetMax(_)
SetMax(S) ==
    IF S = {} THEN 0
    ELSE LET x == CHOOSE y \in S : TRUE
         IN  Max(x, SetMax(S \ {x}))

\* SELECT MAX(slot) FROM transactions, 0 on an empty table.
getLastProcessedSlot(txs) == SetMax({ txs[k].slot : k \in DOMAIN txs })

(***************************************************************************)
(* Store: k_wallet_queue                                                   *)
(***************************************************************************)

\* An upsert whose conflict clause would take the new priority as it comes.
enqueueKWalletLast(q, address, priority, t) ==
    IF address \notin DOMAIN q
    THEN q @@ (address :> [priority |-> priority, attempts |-> 0,
                           created_at |-> t, locked_until |-> NULL])
    ELSE [q EXCEPT ![address].priority = priority,
                   ![address].locked_until = NULL]

\* INSERT ... ON CONFLICT(address) DO UPDATE SET priority = MAX(..), locked_until = NULL
enqueueKWallet(q, address, priority, t) ==
    IF address \notin DOMAIN q
    THEN q @@ (address :> [priority |-> priority, attempts |-> 0,
                           created_at |-> t, locked_until |-> NULL])
    ELSE [q EXCEPT ![address].priority = Max(@, priority),
                   ![address].locked_until = NULL]

TxPriority == 10

\* walletScore.enqueueWallet: tx-triggered, high priority.
enqueueWallet(q, address, t) == enqueueKWallet(q, address, TxPriority, t)

(***************************************************************************)
(* Store: webhook_subscriptions and webhook_deliveries.  The columns url,   *)
(* secret, payload, response_code, response_body, created_at, completed_at  *)
(* and last_triggered_at are written but never read by a guard; they are    *)
(* left out.  Delivery ids are AUTOINCREMENT rowids: the index in the table.*)
(***************************************************************************)

HookSubs == {"sub1"}

\* The history of a delivery that has not been POSTed yet.
NoPosts == [failIncs |-> 0, oks |-> 0]

\* A faulty incrementWebhookFailure: the CASE compares against 5, one failure late.
incrementWebhookFailureLate(sb, subscriptionId) ==
    IF subscriptionId \notin DOMAIN sb THEN sb
    ELSE [sb EXCEPT ![subscriptionId] =
            [@ EXCEPT !.failure_count = sb[subscriptionId].failure_count + 1,
                      !.is_active = IF sb[subscriptionId].failure_count >= 5
                                    THEN 0 ELSE sb[subscriptionId].is_active]]

\* UPDATE ... SET failure_count = failure_count + 1,
\*   is_active = CASE WHEN failure_count >= 4 THEN 0 ELSE is_active END
\* Both right-hand sides read the row as it was before the UPDATE.
incrementWebhookFailure(sb, subscriptionId) ==
    IF subscriptionId \notin DOMAIN sb THEN sb
    ELSE [sb EXCEPT ![subscriptionId] =
            [@ EXCEPT !.failure_count = sb[subscriptionId].failure_count + 1,
                      !.is_active = IF sb[subscriptionId].failure_count >= 4
                                    THEN 0 ELSE sb[subscriptionId].is_active]]

\* UPDATE ... SET failure_count = 0, last_triggered_at = now
resetWebhookFailure(sb, subscriptionId) ==
    IF subscriptionId \notin DOMAIN sb THEN sb
    ELSE [sb EXCEPT ![subscriptionId].failure_count = 0]

\* SELECT ... WHERE is_active = 1 AND failure_count < 5, filtered by event type.
getSubscriptionsForEvent(sb, eventType) ==
    { i \in DOMAIN sb : /\ sb[i].is_active = 1
                        /\ sb[i].failure_count < 5
                        /\ eventType \in sb[i].events }

\* INSERT INTO webhook_deliveries (...) VALUES (?, ?, ?, 'pending')
createWebhookDelivery(ds, subscriptionId, eventType) ==
    Append(ds, [subscription_id |-> subscriptionId, event_type |-> eventType,
                status |-> "pending", attempts |-> 0, next_retry_at |-> NULL])

RECURSIVE CreateDeliveries(_, _, _)
CreateDeliveries(ds, subscriptions, eventType) ==
    IF subscriptions = {} THEN ds
    ELSE LET i == CHOOSE x \in subscriptions : TRUE
         IN  CreateDeliveries(createWebhookDelivery(ds, i, eventType),
                              subscriptions \ {i}, eventType)

\* webhooks.dispatchEvent: one pending delivery per subscriber of the event.
dispatchEvent(sb, ds, eventType) ==
    CreateDeliveries(ds, getSubscriptionsForEvent(sb, eventType), eventType)

\* webhooks.triggerKChange: nothing below one point of change.
triggerKChange(sb, ds, delta) ==
    IF (IF delta < 0 THEN -delta ELSE delta) < 1 THEN ds
    ELSE dispatchEvent(sb, ds, "k_change")

\* The ids from i upwards whose row is in ok, ascending.
RECURSIVE SelectIds(_, _, _)
SelectIds(ds, ok, i) ==
    IF i > Len(ds) THEN <<>>
    ELSE (IF i \in ok THEN <<i>> ELSE <<>>) \o SelectIds(ds, ok, i + 1)

\* getPendingWebhookDeliveries(limit) at time t: the JOIN with the subscription,
\* status pending, retry time null or due, attempts < 3, oldest first.  Each row
\* is the snapshot the caller keeps: id, attempts, subscription_id.
getPendingWebhookDeliveries(ds, sb, t, limit) ==
    LET ok == { i \in 1..Len(ds) :
                  /\ ds[i].subscription_id \in DOMAIN sb
                  /\ ds[i].status = "pending"
                  /\ (ds[i].next_retry_at = NULL \/ ds[i].next_retry_at <= t)
                  /\ ds[i].attempts < 3 }
        ids == SelectIds(ds, ok, 1)
        rows == [n \in 1..Len(ids) |->
                   [id |-> ids[n], attempts |-> ds[ids[n]].attempts,
                    subscription_id |-> ds[ids[n]].subscription_id]]
    IN  IF Len(rows) <= limit THEN rows ELSE SubSeq(rows, 1, limit)

\* UPDATE webhook_deliveries SET status = ?, attempts = attempts + 1,
\*   next_retry_at = ? WHERE id = ?
updateWebhookDelivery(ds, id, status, nextRetryAt) ==
    [ds EXCEPT ![id] = [@ EXCEPT !.status = status,
                                 !.attempts = ds[id].attempts + 1,
                                 !.next_retry_at = nextRetryAt]]

(***************************************************************************)
(* Ingest pipeline.  A batch is folded over the record                     *)
(*   st = [w: wallets, t: transactions, q: k_wallet_queue,                 *)
(*         ap: applied, ws: wslot, hp: hadPositive, ord: batchSlots,       *)
(*         hl: holderLog]                                                  *)
(* whose last five fields are history only: the code never reads them.     *)
(***************************************************************************)

TrackedFields(r) ==
    <<r.current_balance, r.first_buy_ts, r.first_buy_amount, r.peak_balance,
      r.last_tx_signature>>

\* The wallet write made for one change of `sig` (slot `slot`, signed `delta`),
\* with the history of that write.
WriteForChange(st, wallet, sig, slot, delta) ==
    LET a == wallet.address
        ws2 == upsertWallet(st.w, wallet)
        changed == \/ a \notin DOMAIN st.w
                   \/ TrackedFields(st.w[a]) # TrackedFields(ws2[a])
        old == st.ws[a]
    IN  [st EXCEPT !.w = ws2,
                   !.ap = [@ EXCEPT ![<<sig, a>>] = @ + 1],
                   !.ws = [@ EXCEPT ![a] =
                             [last |-> IF changed \/ slot >= old.max THEN slot ELSE old.last,
                              max |-> Max(old.max, slot)]],
                   !.hp = IF delta > 0 THEN @ \cup {a} ELSE @]

\* webhook.js updateWalletFromTransfer.  getWallets returns current_balance as a
\* BigInt and amountChange is a Number: `(existing.current_balance || 0) + amountChange`
\* is Number + Number only when the balance is 0n, and throws a TypeError otherwise.
updateWalletFromTransfer(st, address, amountChange, blockTime, sig, slot) ==
    IF address \in DOMAIN st.w
    THEN IF st.w[address].current_balance # 0
         THEN [threw |-> TRUE, st |-> st]
         ELSE [threw |-> FALSE,
               st |-> WriteForChange(st,
                        [address |-> address,
                         balance |-> Max(0, 0 + amountChange),
                         firstBuyTs |-> st.w[address].first_buy_ts,
                         firstBuyAmount |-> st.w[address].first_buy_amount,
                         received |-> IF amountChange > 0 THEN amountChange ELSE 0,
                         sent |-> IF amountChange < 0 THEN -amountChange ELSE 0,
                         lastTxSig |-> sig],
                        sig, slot, amountChange)]
    ELSE IF amountChange > 0
         THEN [threw |-> FALSE,
               st |-> WriteForChange(st,
                        [address |-> address,
                         balance |-> amountChange,
                         firstBuyTs |-> blockTime,
                         firstBuyAmount |-> amountChange,
                         received |-> amountChange,
                         sent |-> 0,
                         lastTxSig |-> sig],
                        sig, slot, amountChange)]
         ELSE [threw |-> FALSE, st |-> st]

\* The balance the wallets table holds for an address, 0 without a row.
BalanceOf(ws, address) == IF address \in DOMAIN ws THEN ws[address].current_balance ELSE 0

\* holderLog after the wallet write that took st0 to st1 and was followed by the
\* broadcast of `event` ("none": no holder event).
LogHolder(st0, st1, address, event) ==
    [st1 EXCEPT !.hl = @ \cup {[was |-> BalanceOf(st0.w, address) > 0,
                                is |-> BalanceOf(st1.w, address) > 0,
                                event |-> event]}]

\* One side (from / to) of a transfer in processEvents: record, update, enqueue.
\* A throw leaves the row recorded and skips the enqueue.
PushSide(st, sig, suffix, address, amountChange, t) ==
    LET e == ledger[sig]
        st1 == [st EXCEPT !.t = recordTransaction(@,
                    [signature |-> <<sig, suffix>>, slot |-> e.slot,
                     blockTime |-> BlockTime(e), wallet |-> address,
                     amountChange |-> amountChange]),
                          !.ord = Append(@, e.slot)]
        r == updateWalletFromTransfer(st1, address, amountChange, BlockTime(e), sig, e.slot)
    IN  IF r.threw
        THEN [threw |-> TRUE, st |-> st1]
        ELSE [threw |-> FALSE,
              st |-> [(IF r.st.w # st1.w THEN LogHolder(st1, r.st, address, "none")
                       ELSE r.st)
                         EXCEPT !.q = enqueueWallet(@, address, t)]]

\* The body of processEvents' loop for one event; the per-event try/catch ends the
\* event at the first throw.
PushEvent(st, sig, lastProcessedSlot, t) ==
    LET e == ledger[sig]
    IN  IF e.slot <= lastProcessedSlot /\ lastProcessedSlot > 0
        THEN st
        ELSE LET r1 == IF e.from # NoAcct
                       THEN PushSide(st, sig, "from", e.from, -e.amount, t)
                       ELSE [threw |-> FALSE, st |-> st]
             IN  IF r1.threw
                 THEN r1.st
                 ELSE IF e.to # NoAcct
                      THEN PushSide(r1.st, sig, "to", e.to, e.amount, t).st
                      ELSE r1.st

RECURSIVE PushEvents(_, _, _, _)
PushEvents(st, events, lastProcessedSlot, t) ==
    IF events = <<>> THEN st
    ELSE PushEvents(PushEvent(st, Head(events), lastProcessedSlot, t),
                    Tail(events), lastProcessedSlot, t)

\* webhook.js processEvents: the watermark is read once, before the loop, and the
\* events are taken in payload order.
processEvents(st, events, t) ==
    PushEvents([st EXCEPT !.ord = <<>>, !.hl = {}], events, getLastProcessedSlot(st.t), t)

\* helius.parseTransaction: one change per owner whose balance differs.
parseTransaction(sig) ==
    LET e == ledger[sig]
        mk(w, d) == [signature |-> sig, slot |-> e.slot, blockTime |-> BlockTime(e),
                     wallet |-> w, amountChange |-> d]
    IN  (IF e.from # NoAcct THEN <<mk(e.from, -e.amount)>> ELSE <<>>)
        \o (IF e.to # NoAcct THEN <<mk(e.to, e.amount)>> ELSE <<>>)

\* sync.js updateWalletBalance(change).
updateWalletBalance(st, change) ==
    IF change.wallet \in DOMAIN st.w
    THEN LET existing == st.w[change.wallet]
             newBalance == existing.current_balance + change.amountChange
         IN  WriteForChange(st,
                [address |-> change.wallet,
                 balance |-> Max(0, newBalance),
                 firstBuyTs |-> existing.first_buy_ts,
                 firstBuyAmount |-> existing.first_buy_amount,
                 received |-> IF change.amountChange > 0 THEN change.amountChange ELSE 0,
                 sent |-> IF change.amountChange < 0 THEN -change.amountChange ELSE 0,
                 lastTxSig |-> change.signature],
                change.signature, change.slot, change.amountChange)
    ELSE IF change.amountChange > 0
         THEN WriteForChange(st,
                [address |-> change.wallet,
                 balance |-> change.amountChange,
                 firstBuyTs |-> change.blockTime,
                 firstBuyAmount |-> change.amountChange,
                 received |-> change.amountChange,
                 sent |-> 0,
                 lastTxSig |-> change.signature],
                change.signature, change.slot, change.amountChange)
         ELSE st

\* The value updateWalletBalance(change) returns: 'exit' for a row whose balance
\* was positive and is not any more, 'new' for a first positive change of an
\* address without a row, null ("none") otherwise.
HolderChange(ws, change) ==
    IF change.wallet \in DOMAIN ws
    THEN IF ws[change.wallet].current_balance > 0
            /\ ws[change.wallet].current_balance + change.amountChange <= 0
         THEN "exit" ELSE "none"
    ELSE IF change.amountChange > 0 THEN "new" ELSE "none"

\* fetchNewTransactions' inner loop body: record, update, enqueue, broadcast; the returned
\* status of the insert is not consulted.
PullChange(st, change, t) ==
    LET st1 == [st EXCEPT !.t = recordTransaction(@,
                    [signature |-> <<change.signature, change.wallet>>,
                     slot |-> change.slot, blockTime |-> change.blockTime,
                     wallet |-> change.wallet, amountChange |-> change.amountChange]),
                          !.ord = Append(@, change.slot)]
        st2 == updateWalletBalance(st1, change)
        holderChange == HolderChange(st1.w, change)
        st3 == IF st2.w # st1.w
               THEN LogHolder(st1, st2, change.wallet,
                              IF holderChange = "new" THEN "holder:new"
                              ELSE IF holderChange = "exit" THEN "holder:exit"
                              ELSE "none")
               ELSE st2
    IN  [st3 EXCEPT !.q = enqueueWallet(@, change.wallet, t)]

RECURSIVE PullChanges(_, _, _)
PullChanges(st, changes, t) ==
    IF changes = <<>> THEN st
    ELSE PullChanges(PullChange(st, Head(changes), t), Tail(changes), t)

RECURSIVE PullTransactions(_, _, _)
PullTransactions(st, txs, t) ==
    IF txs = <<>> THEN st
    ELSE PullTransactions(PullChanges(st, parseTransaction(Head(txs)), t), Tail(txs), t)

\* The sequences allTransactions can be after the sort by slot: every fetched
\* subset of the signatures newer than lastSlot, ascending by slot.
SortedFetches(lastSlot) ==
    LET new == { s \in Sigs : ledger[s].slot > lastSlot }
    IN  { q \in UNION { [1..n -> new] : n \in 0..Cardinality(new) } :
            /\ \A i, j \in DOMAIN q : i < j => q[i] # q[j]
            /\ \A i, j \in DOMAIN q : i < j => ledger[q[i]].slot <= ledger[q[j]].slot }

Store == [w |-> wallets, t |-> transactions, q |-> kQueue,
          ap |-> applied, ws |-> wslot, hp |-> hadPositive, ord |-> batchSlots,
          hl |-> holderLog]

SetStore(st) ==
    /\ wallets' = st.w
    /\ transactions' = st.t
    /\ kQueue' = st.q
    /\ applied' = st.ap
    /\ wslot' = st.ws
    /\ batchSlots' = st.ord
    /\ holderLog' = st.hl
    /\ hadPositive' = st.hp

Batches == UNION { [1..n -> Sigs] : n \in 1..MaxBatch }

\* POST /k-metric/webhook with a verified body: processEvents runs to completion.
PushBatch ==
    /\ opsLeft > 0
    /\ \E events \in Batches : SetStore(processEvents(Store, events, now))
    /\ opsLeft' = opsLeft - 1
    /\ UNCHANGED <<ledger, oneUsdThreshold, isPolling, pullLastSlot, now,
                   lastK, snapshots, kResult>>
    /\ UNCHANGED <<workerVars, rateVars, polls, hookVars, wsVars, httpVars, lateVars>>

\* A faulty fetchNewTransactions that does not test isPolling on entry.
PullStartUnguarded ==
    /\ opsLeft > 0
    /\ isPolling' = TRUE
    /\ pullLastSlot' = getLastProcessedSlot(transactions)
    /\ opsLeft' = opsLeft - 1
    /\ UNCHANGED <<ledger, wallets, transactions, kQueue, oneUsdThreshold, now,
                   applied, wslot, batchSlots, holderLog, hadPositive, lastK, snapshots, kResult>>
    /\ polls' = polls + 1
    /\ UNCHANGED <<workerVars, rateVars, hookVars, wsVars, httpVars, lateVars>>

\* fetchNewTransactions up to its first RPC: the guard, the flag, the watermark.
PullStart ==
    /\ opsLeft > 0
    /\ ~isPolling
    /\ isPolling' = TRUE
    /\ pullLastSlot' = getLastProcessedSlot(transactions)
    /\ opsLeft' = opsLeft - 1
    /\ UNCHANGED <<ledger, wallets, transactions, kQueue, oneUsdThreshold, now,
                   applied, wslot, batchSlots, holderLog, hadPositive, lastK, snapshots, kResult>>
    /\ polls' = polls + 1
    /\ UNCHANGED <<workerVars, rateVars, hookVars, wsVars, httpVars, lateVars>>

\* fetchNewTransactions entered while a poll is in flight: returns 0.
PullSkip ==
    /\ isPolling
    /\ UNCHANGED vars

\* fetchNewTransactions after the RPCs: filter, sort, apply, clear the flag.
PullFinish ==
    /\ isPolling
    /\ \E txs \in SortedFetches(pullLastSlot) :
          SetStore(PullTransactions([Store EXCEPT !.ord = <<>>, !.hl = {}], txs, now))
    /\ isPolling' = FALSE
    /\ pullLastSlot' = 0
    /\ UNCHANGED <<ledger, oneUsdThreshold, now, opsLeft, lastK, snapshots, kResult>>
    /\ polls' = polls - 1
    /\ UNCHANGED <<workerVars, rateVars, hookVars, wsVars, httpVars, lateVars>>

(***************************************************************************)
(* K Calculator                                                            *)
(***************************************************************************)

\* MIN_BALANCE (env, default '1000' raw units), in the model's amount unit.
MinBalanceFallback == 1

\* calculator.js getMinBalance: the $1 threshold from sync_state, or the fallback.
getMinBalance(thr) == IF thr # NULL THEN thr ELSE MinBalanceFallback

\* db.getWallets(minBalance): the addresses whose balance is at least minBalance.
getWallets(ws, minBalance) == { a \in DOMAIN ws : ws[a].current_balance >= minBalance }

\* utils.pct: Math.round((value / total) * 100).  The doubles are exact here:
\* the IEEE result first differs from the rational one at value/total = 23/40,
\* above every total the model builds.
pct(value, total) ==
    IF total = 0 THEN 0 ELSE (200 * value + total) \div (2 * total)

\* retention >= num/den for a (balance, firstBuy) pair, retention being
\* balance / firstBuy when firstBuy > 0 and 1 otherwise.
RetentionGE(balance, firstBuy, num, den) ==
    IF firstBuy > 0 THEN den * balance >= num * firstBuy ELSE den >= num

NoResult ==
    [source |-> "none", k |-> NULL, holders |-> NULL, neverSold |-> NULL,
     accumulators |-> NULL, maintained |-> NULL, partialSellers |-> NULL,
     majorSellers |-> NULL]

\* calculator.calculate(): null when no wallet qualifies, else the counts and K.
calculate(ws, thr) ==
    LET hs == getWallets(ws, getMinBalance(thr))
        firstBuy(a) == IF ws[a].first_buy_amount # 0
                       THEN ws[a].first_buy_amount ELSE ws[a].current_balance
        ge(a, num, den) == RetentionGE(ws[a].current_balance, firstBuy(a), num, den)
        total == Cardinality(hs)
        neverSold == Cardinality({ a \in hs : ws[a].total_sent = 0 })
        accumulators == Cardinality({ a \in hs : ge(a, 3, 2) })
        maintained == Cardinality({ a \in hs : ge(a, 1, 1) })
        partialSellers == Cardinality({ a \in hs : ge(a, 1, 2) /\ ~ge(a, 1, 1) })
        majorSellers == Cardinality({ a \in hs : ~ge(a, 1, 2) })
    IN  IF hs = {} THEN NoResult
        ELSE [source |-> "calculate", k |-> pct(maintained, total), holders |-> total,
              neverSold |-> neverSold, accumulators |-> accumulators,
              maintained |-> maintained, partialSellers |-> partialSellers,
              majorSellers |-> majorSellers]

\* token-score.js classifyRetention on a holder history.
classifyRetention(h) ==
    IF RetentionGE(h.current_balance, h.first_buy_amount, 3, 2) THEN "accumulator"
    ELSE IF RetentionGE(h.current_balance, h.first_buy_amount, 1, 1) THEN "holder"
    ELSE IF RetentionGE(h.current_balance, h.first_buy_amount, 1, 2) THEN "reducer"
    ELSE "extractor"

\* token-score.js calculateTokenK on `hist`: holder -> its history, with ok = FALSE
\* where the history fetch was rejected.  A holder is analyzed when its fetch
\* succeeded and its first_buy_amount is positive.
calculateTokenK(hist) ==
    LET holders == DOMAIN hist
        analyzed == { h \in holders : hist[h].ok /\ hist[h].first_buy_amount > 0 }
        count(c) == Cardinality({ h \in analyzed : classifyRetention(hist[h]) = c })
        n == Cardinality(analyzed)
    IN  IF holders = {}
        THEN [NoResult EXCEPT !.source = "token", !.holders = 0]
        ELSE [source |-> "token",
              k |-> IF n > 0
                    THEN (200 * (count("accumulator") + count("holder")) + n) \div (2 * n)
                    ELSE 0,
              holders |-> Cardinality(holders),
              neverSold |-> NULL,
              accumulators |-> count("accumulator"),
              maintained |-> count("holder"),
              partialSellers |-> count("reducer"),
              majorSellers |-> count("extractor")]

(***************************************************************************)
(* Holder syncs                                                            *)
(***************************************************************************)

\* helius.fetchHolders: the owners with a positive on-chain balance.
HolderLists == { h \in UNION { [H -> 1..MaxHolding] : H \in SUBSET Wallets } : TRUE }

RECURSIVE EnqueueAll(_, _, _)
EnqueueAll(q, S, t) ==
    IF S = {} THEN q
    ELSE LET a == CHOOSE x \in S : TRUE
         IN  EnqueueAll(enqueueWallet(q, a, t), S \ {a}, t)

\* syncHolderDelta's row for a missing holder.
DeltaRow(h) ==
    [address |-> h.address, balance |-> h.balance, firstBuyTs |-> NULL,
     firstBuyAmount |-> h.balance, received |-> h.balance, sent |-> 0,
     lastTxSig |-> NoSig]

\* handleSync's row for a holder.
SyncRow(h) ==
    [address |-> h.address, balance |-> h.balance, firstBuyTs |-> NULL,
     firstBuyAmount |-> 0, received |-> 0, sent |-> 0, lastTxSig |-> NoSig]

\* `for (const holder of holders) await db.upsertWallet(row(holder))`; the rows are
\* of distinct addresses, so the order of the loop is immaterial.
RECURSIVE UpsertAll(_, _, _)
UpsertAll(ws, holders, manual) ==
    IF DOMAIN holders = {} THEN ws
    ELSE LET a == CHOOSE x \in DOMAIN holders : TRUE
             h == [address |-> a, balance |-> holders[a]]
             rest == [x \in DOMAIN holders \ {a} |-> holders[x]]
         IN  UpsertAll(upsertWallet(ws, IF manual THEN SyncRow(h) ELSE DeltaRow(h)),
                       rest, manual)

\* sync.js syncHolderDelta after its two RPCs: the holders worth $1 that the
\* table lacks are inserted with their balance as the assumed first buy.
syncHolderDelta ==
    /\ opsLeft > 0
    /\ \E onChain \in HolderLists, oneUsdInTokens \in 1..MaxAmt :
          LET qualified == { a \in DOMAIN onChain : onChain[a] >= oneUsdInTokens }
              missing == qualified \ getWallets(wallets, 0)
          IN  /\ missing # {}
              /\ wallets' = UpsertAll(wallets, [a \in missing |-> onChain[a]], FALSE)
              /\ kQueue' = EnqueueAll(kQueue, missing, now)
              /\ oneUsdThreshold' = oneUsdInTokens
    /\ opsLeft' = opsLeft - 1
    /\ UNCHANGED <<ledger, transactions, isPolling, pullLastSlot, now, applied, wslot, batchSlots, holderLog,
                   hadPositive, lastK, snapshots, kResult>>
    /\ UNCHANGED <<workerVars, rateVars, polls, hookVars, wsVars, httpVars, lateVars>>

\* POST /k-metric/sync (handleSync) after fetchHolders: every holder is upserted,
\* then calculateAndSave appends a snapshot, queues the k_change deliveries when
\* K moved by a point or more since the last save, and moves lastK.
handleSync ==
    /\ opsLeft > 0
    /\ \E onChain \in HolderLists :
          LET ws2 == UpsertAll(wallets, onChain, TRUE)
              data == calculate(ws2, oneUsdThreshold)
          IN  /\ wallets' = ws2
              /\ IF data = NoResult
                 THEN UNCHANGED <<snapshots, lastK, deliveries, hookLog>>
                 ELSE /\ snapshots' = Append(snapshots, data)
                      /\ deliveries' = IF lastK # NULL
                                       THEN triggerKChange(subs, deliveries, data.k - lastK)
                                       ELSE deliveries
                      /\ hookLog' = hookLog \o
                                      [n \in 1..(Len(deliveries') - Len(deliveries)) |-> NoPosts]
                      /\ lastK' = data.k
    /\ opsLeft' = opsLeft - 1
    /\ UNCHANGED <<ledger, transactions, kQueue, oneUsdThreshold, isPolling,
                   pullLastSlot, now, applied, wslot, batchSlots, holderLog, hadPositive, kResult>>
    /\ UNCHANGED <<workerVars, rateVars, polls, subs, runs, wsVars, httpVars, lateVars>>

(***************************************************************************)
(* Specification of the ingest pipeline                                    *)
(***************************************************************************)

InitStore ==
    /\ wallets = <<>>
    /\ transactions = <<>>
    /\ kQueue = <<>>
    /\ oneUsdThreshold = NULL
    /\ isPolling = FALSE
    /\ pullLastSlot = 0
    /\ now = 0
    /\ applied = [c \in Sigs \X Wallets |-> 0]
    /\ wslot = [a \in Wallets |-> [last |-> 0, max |-> 0]]
    /\ batchSlots = <<>>
    /\ holderLog = {}
    /\ hadPositive = {}
    /\ lastK = NULL
    /\ snapshots = <<>>
    /\ kResult = NoResult

\* No Complete, no computation and no Enqueue has been recorded for a key.
NoHist == [score |-> NULL, computed |-> 0, maxPrio |-> NULL, lastPrio |-> NULL]

InitWorkerIdle ==
    /\ workerRunning = FALSE
    /\ loops = [l \in 1..MaxLoops |-> [pc |-> "none", key |-> NoAcct, slot |-> 0]]
    /\ lastStaleCheck = NULL
    /\ backfillTimers = 0
    /\ kwCols = [a \in Wallets |-> [k_wallet |-> NULL, updated_at |-> NULL, slot |-> NULL]]
    /\ enqueued = [a \in Wallets |-> 0]
    /\ owed = {}
    /\ calcHist = [a \in Wallets |-> NoHist]
    /\ completed = [a \in Wallets |-> 0]

InitRateIdle ==
    /\ rateLimitsV2 = <<>>
    /\ nextCleanup = CleanupEvery
    /\ allowedAt = [i \in Identifiers |-> <<>>]
    /\ reqLog = [i \in Identifiers |-> <<>>]

\* One subscription to k_change exists; nothing has been dispatched.
InitHooksIdle ==
    /\ subs = [i \in HookSubs |-> [is_active |-> 1, failure_count |-> 0,
                                   events |-> {"k_change"}]]
    /\ deliveries = <<>>
    /\ runs = [r \in 1..MaxRuns |-> <<>>]
    /\ hookLog = <<>>

\* No HTTP request yet.
NoResponse == [route |-> "none", key |-> "none", signed |-> "none",
               unverifiable |-> FALSE, remaining |-> 0, retryAfter |-> NULL,
               status |-> 0, reason |-> "none", handed |-> FALSE]

\* The defaults of a development set-up: no webhook secret, NODE_ENV unset,
\* K_GLOBAL_FAIL_CLOSED at its default.
\* Table api_keys as createApiKey leaves it: kf without an expiry, kt with one.
KeyRows ==
    [kf |-> [id |-> "kf", tier |-> "free", is_active |-> 1, expires_at |-> NULL],
     kt |-> [id |-> "kt", tier |-> "free", is_active |-> 1, expires_at |-> KeyExpiresAt]]

NoValidation == [n |-> 0, key |-> "none", accepted |-> FALSE]

InitKeysIdle ==
    /\ apiKeys = KeyRows
    /\ apiKeyCache = [k \in DOMAIN KeyRows |-> <<>>]
    /\ keyLog = NoValidation

Mints == {"m1", "m2"}

NoTokenAnswer == [mint |-> "none", status |-> "none"]

InitTokensIdle ==
    /\ tokens = <<>>
    /\ tokenQueue = <<>>
    /\ tokenLoops = [l \in 1..MaxTokenLoops |-> [pc |-> "none", key |-> "none"]]
    /\ tokenWorkerRunning = FALSE
    /\ tokenReqsLeft = 0
    /\ tokenResp = NoTokenAnswer

MemAddrs == {"A1", "A2", "A3", "A4"}

InitMemIdle ==
    /\ walletCache = [a \in MemAddrs |-> NULL]
    /\ walletQueue = <<>>
    /\ activeCalculations = 0
    /\ inFlight = <<>>
    /\ memOpsLeft = 0

InitLateIdle ==
    /\ InitKeysIdle
    /\ InitTokensIdle
    /\ InitMemIdle

InitHttpIdle ==
    /\ env = [secret |-> "", production |-> FALSE, failClosed |-> TRUE]
    /\ resp = NoResponse

\* No 'data' event yet.
NoData == [data |-> <<>>, frames |-> <<>>]

\* Nothing was written by the last step.
NoFrames == [to |-> [s \in Sockets |-> {}], minTier |-> "none"]

InitWsIdle ==
    /\ clients = <<>>
    /\ keyConnections = <<>>
    /\ heartbeatIn = NULL
    /\ closing = {}
    /\ fresh = Sockets
    /\ wire = NoFrames
    /\ buffer = [s \in Sockets |-> <<>>]
    /\ rx = NoData

\* The signatures are numbered in slot order.
Ledgers == { l \in [Sigs -> Transfers] : l["S1"].slot <= l["S2"].slot }

InitIngest ==
    /\ ledger \in Ledgers
    /\ opsLeft = MaxOps
    /\ InitStore
    /\ InitWorkerIdle
    /\ InitRateIdle
    /\ polls = 0
    /\ InitHooksIdle
    /\ InitWsIdle
    /\ InitHttpIdle
    /\ InitLateIdle

NextIngest ==
    \/ PushBatch
    \/ PullStart
    \/ PullSkip
    \/ PullFinish
    \/ syncHolderDelta
    \/ handleSync

SpecIngest == InitIngest /\ [][NextIngest]_vars

(***************************************************************************)
(* Specification of the K calculator: the pure functions, applied to       *)
(* wallet tables and holder histories drawn from bounded sets.             *)
(***************************************************************************)

\* Wallet rows as the ingest and sync paths leave them, up to the fields the
\* calculator reads: any first buy and balance, with or without a sale.
CalcRows ==
    { [first_buy_ts |-> IF f = 0 THEN NULL ELSE 1001,
       first_buy_amount |-> f,
       total_received |-> Max(f, c),
       total_sent |-> snt,
       current_balance |-> c,
       peak_balance |-> Max(f, c),
       last_tx_signature |-> NoSig] :
         f \in 0..MaxCalcAmt, c \in 0..MaxCalcAmt, snt \in 0..1 }

CalcTables == UNION { [H -> CalcRows] : H \in SUBSET Wallets }

HistRows ==
    { [ok |-> TRUE, first_buy_amount |-> f, current_balance |-> c] :
         f \in 0..MaxCalcAmt, c \in 0..MaxCalcAmt }
    \cup { [ok |-> FALSE, first_buy_amount |-> 0, current_balance |-> 0] }

Histories == UNION { [H -> HistRows] : H \in SUBSET Wallets }

InitCalc ==
    /\ wallets \in CalcTables
    /\ oneUsdThreshold \in {NULL, 2}
    /\ ledger = [s \in Sigs |-> [slot |-> 1, from |-> NoAcct, to |-> "W1", amount |-> 1]]
    /\ opsLeft = 0
    /\ transactions = <<>>
    /\ kQueue = <<>>
    /\ isPolling = FALSE
    /\ pullLastSlot = 0
    /\ now = 0
    /\ applied = [c \in Sigs \X Wallets |-> 0]
    /\ wslot = [a \in Wallets |-> [last |-> 0, max |-> 0]]
    /\ batchSlots = <<>>
    /\ holderLog = {}
    /\ hadPositive = {}
    /\ lastK = NULL
    /\ snapshots = <<>>
    /\ kResult = NoResult
    /\ InitWorkerIdle
    /\ InitRateIdle
    /\ polls = 0
    /\ InitHooksIdle
    /\ InitWsIdle
    /\ InitHttpIdle
    /\ InitLateIdle

\* GET /k-metric on a cold cache: the result of calculator.calculate().  A
\* behaviour of this specification follows one request to its response.
GetKMetric ==
    /\ kResult = NoResult
    /\ kResult' = calculate(wallets, oneUsdThreshold)
    /\ UNCHANGED <<ledger, wallets, transactions, kQueue, oneUsdThreshold, isPolling,
                   pullLastSlot, now, opsLeft, applied, wslot, batchSlots, holderLog, hadPositive, lastK,
                   snapshots>>
    /\ UNCHANGED <<workerVars, rateVars, polls, hookVars, wsVars, httpVars, lateVars>>

\* The token worker's calculateTokenK(mint) on the histories the chain returns.
TokenCalc ==
    /\ kResult = NoResult
    /\ \E hist \in Histories : kResult' = calculateTokenK(hist)
    /\ UNCHANGED <<ledger, wallets, transactions, kQueue, oneUsdThreshold, isPolling,
                   pullLastSlot, now, opsLeft, applied, wslot, batchSlots, holderLog, hadPositive, lastK,
                   snapshots>>
    /\ UNCHANGED <<workerVars, rateVars, polls, hookVars, wsVars, httpVars, lateVars>>

NextCalc ==
    \/ GetKMetric
    \/ TokenCalc

SpecCalc == InitCalc /\ [][NextCalc]_vars

(***************************************************************************)
(* K_wallet queue and its worker (wallet-score.js, db k_wallet_queue).     *)
(* The clock moves in steps of TickStep seconds; the 5 s and 10 s timers   *)
(* elapse within a step.                                                   *)
(***************************************************************************)

KLockDuration == 300
MaxAttempts == 5
StaleCheckInterval == 3600
KWalletTTL == 86400

RECURSIVE enqueueKWalletBatch(_, _, _, _)
enqueueKWalletBatch(q, addresses, priority, t) ==
    IF addresses = {} THEN q
    ELSE LET a == CHOOSE x \in addresses : TRUE
         IN  enqueueKWalletBatch(enqueueKWallet(q, a, priority, t),
                                 addresses \ {a}, priority, t)

\* dequeueKWallet's SELECT: the unlocked or lease-expired rows that come first
\* under ORDER BY priority DESC, created_at ASC.  Rows that tie are returned in
\* an order SQL leaves open.
DequeueCandidates(q, t) ==
    LET avail == { a \in DOMAIN q :
                     q[a].locked_until = NULL \/ q[a].locked_until < t }
    IN  { a \in avail : \A b \in avail :
             \/ q[b].priority < q[a].priority
             \/ q[b].priority = q[a].priority /\ q[b].created_at >= q[a].created_at }

\* dequeueKWallet's UPDATE: the lease.
dequeueKWallet(q, address, t) ==
    [q EXCEPT ![address].locked_until = t + KLockDuration]

\* completeKWallet: UPDATE wallets ... WHERE address = ?, then DELETE the queue row.
completeKWallet(q, cols, ws, address, kWallet, slot, t) ==
    [q |-> [a \in DOMAIN q \ {address} |-> q[a]],
     cols |-> IF address \in DOMAIN ws
              THEN [cols EXCEPT ![address] =
                      [k_wallet |-> kWallet, updated_at |-> t, slot |-> slot]]
              ELSE cols]

failKWallet(q, address) ==
    IF address \in DOMAIN q
    THEN [q EXCEPT ![address].attempts = @ + 1, ![address].locked_until = NULL]
    ELSE q

cleanupKWalletQueue(q, maxAttempts) ==
    [a \in { b \in DOMAIN q : q[b].attempts < maxAttempts } |-> q[a]]

\* db.getWalletsNeedingKWallet(limit, maxAgeSeconds); -1 asks for the wallets
\* never calculated.  The limits (50, 1000) exceed the model's wallet count.
getWalletsNeedingKWallet(ws, cols, maxAgeSeconds, t) ==
    { a \in DOMAIN ws :
        /\ ws[a].current_balance >= MinBalanceFallback
        /\ \/ cols[a].updated_at = NULL
           \/ maxAgeSeconds # -1 /\ cols[a].updated_at < t - maxAgeSeconds }

\* The keys cleanupKWalletQueue(maxAttempts) deletes from q.
Dropped(q, maxAttempts) == { a \in DOMAIN q : q[a].attempts >= maxAttempts }

CountEnqueues(addresses) ==
    [a \in Wallets |-> enqueued[a] + IF a \in addresses THEN 1 ELSE 0]

\* calcHist after an action that started from queue q0 (kQueue, or the empty
\* queue of startWorker's DELETE), enqueued the keys E with priority p, began a
\* computation of the keys D and left queue q1.
Track(q0, E, p, D, q1) ==
    [a \in Wallets |->
        LET base == IF a \in DOMAIN q0 THEN calcHist[a]
                    ELSE [NoHist EXCEPT !.score = calcHist[a].score]
            c == base.computed
        IN  IF a \notin DOMAIN q1 THEN [NoHist EXCEPT !.score = base.score]
            ELSE [score |-> base.score,
                  computed |-> IF a \in D /\ c <= MaxAttempts THEN c + 1 ELSE c,
                  maxPrio |-> IF a \in E /\ p > base.maxPrio THEN p ELSE base.maxPrio,
                  lastPrio |-> IF a \in E THEN p ELSE base.lastPrio]]

\* One pass of processWorkerLoop's body from the top of the `while` to its first
\* RPC (a key was dequeued) or to the sleep (the queue had none), on queue q0.
RunIteration(l, q0) ==
    LET refresh == lastStaleCheck = NULL \/ now - lastStaleCheck > StaleCheckInterval
        stale == IF refresh
                 THEN getWalletsNeedingKWallet(wallets, kwCols, KWalletTTL, now)
                 ELSE {}
        q1 == enqueueKWalletBatch(q0, stale, 1, now)
        cands == DequeueCandidates(q1, now)
    IN  /\ lastStaleCheck' = IF refresh THEN now ELSE lastStaleCheck
        /\ enqueued' = CountEnqueues(stale)
        /\ IF cands = {}
           THEN /\ kQueue' = cleanupKWalletQueue(q1, MaxAttempts)
                /\ owed' = (owed \cup stale) \ Dropped(q1, MaxAttempts)
                /\ calcHist' = Track(q0, stale, 1, {}, kQueue')
                /\ loops' = [loops EXCEPT ![l] = [pc |-> "sleep", key |-> NoAcct, slot |-> 0]]
           ELSE \E a \in cands :
                /\ kQueue' = dequeueKWallet(q1, a, now)
                /\ owed' = (owed \cup stale) \ {a}
                /\ calcHist' = Track(q0, stale, 1, {a}, kQueue')
                /\ loops' = [loops EXCEPT ![l] =
                               [pc |-> "calc", key |-> a,
                                slot |-> getLastProcessedSlot(transactions)]]

\* wallet-score.startWorker(): returns when a worker is flagged running; else sets
\* the flag, clears the queue, arms the backfill timer and enters the loop.
startWorker ==
    /\ \E l \in 1..MaxLoops : loops[l].pc = "none"
    /\ IF workerRunning
       THEN UNCHANGED <<kQueue, workerVars>>
       ELSE LET l == CHOOSE x \in 1..MaxLoops :
                        loops[x].pc = "none" /\ \A y \in 1..(x - 1) : loops[y].pc # "none"
            IN  /\ workerRunning' = TRUE
                /\ backfillTimers' = backfillTimers + 1
                /\ RunIteration(l, <<>>)
                /\ UNCHANGED <<kwCols, completed>>
    /\ UNCHANGED <<now, opsLeft, quietForQueue>>

stopWorker ==
    /\ workerRunning' = FALSE
    /\ UNCHANGED <<kQueue, loops, lastStaleCheck, backfillTimers, kwCols, enqueued,
                   completed, owed, calcHist, now, opsLeft, quietForQueue>>

\* The loop's sleep ends: the `while (workerRunning)` test, then the next pass.
LoopWake ==
    \E l \in 1..MaxLoops :
        /\ loops[l].pc = "sleep"
        /\ IF workerRunning
           THEN /\ RunIteration(l, kQueue)
                /\ UNCHANGED <<workerRunning, backfillTimers, kwCols, completed>>
           ELSE /\ loops' = [loops EXCEPT ![l].pc = "exit"]
                /\ UNCHANGED <<kQueue, workerRunning, lastStaleCheck, backfillTimers,
                               kwCols, enqueued, completed, owed, calcHist>>
        /\ UNCHANGED <<now, opsLeft, quietForQueue>>

\* calculateWalletKScoreInternal settles: Complete with the score (or with NULL
\* when the wallet has no tokens), or Fail on a throw; then the cleaner, then sleep.
CalcDone ==
    \E l \in 1..MaxLoops :
        /\ loops[l].pc = "calc"
        /\ LET a == loops[l].key
           IN  \/ \E k \in {NULL, 100} :
                    LET r == completeKWallet(kQueue, kwCols, wallets, a, k,
                                             loops[l].slot, now)
                    IN  /\ kQueue' = cleanupKWalletQueue(r.q, MaxAttempts)
                        /\ owed' = owed \ Dropped(r.q, MaxAttempts)
                        /\ kwCols' = r.cols
                        /\ completed' = [completed EXCEPT ![a] = @ + 1]
                        /\ calcHist' = [Track(kQueue, {}, NULL, {}, kQueue')
                                           EXCEPT ![a].score = k]
               \/ /\ kQueue' = cleanupKWalletQueue(failKWallet(kQueue, a), MaxAttempts)
                  /\ owed' = owed \ Dropped(failKWallet(kQueue, a), MaxAttempts)
                  /\ calcHist' = Track(kQueue, {}, NULL, {}, kQueue')
                  /\ UNCHANGED <<kwCols, completed>>
        /\ loops' = [loops EXCEPT ![l] = [pc |-> "sleep", key |-> NoAcct, slot |-> 0]]
        /\ UNCHANGED <<workerRunning, lastStaleCheck, backfillTimers, enqueued, now,
                       opsLeft, quietForQueue>>

\* The timer armed by startWorker fires: backfillAllHolders().
Backfill ==
    /\ backfillTimers > 0
    /\ backfillTimers' = backfillTimers - 1
    /\ LET missing == getWalletsNeedingKWallet(wallets, kwCols, -1, now)
       IN  /\ kQueue' = enqueueKWalletBatch(kQueue, missing, 0, now)
           /\ enqueued' = CountEnqueues(missing)
           /\ owed' = owed \cup missing
           /\ calcHist' = Track(kQueue, missing, 0, {}, kQueue')
    /\ UNCHANGED <<workerRunning, loops, lastStaleCheck, kwCols, completed, now,
                   opsLeft, quietForQueue>>

\* GET /api/v1/wallet/:addr: a wallet without a stored score is enqueued.
handleApiV1Wallet ==
    /\ opsLeft > 0
    /\ opsLeft' = opsLeft - 1
    /\ \E address \in Wallets :
          IF address \in DOMAIN wallets /\ kwCols[address].k_wallet # NULL
          THEN UNCHANGED <<kQueue, enqueued, owed, calcHist>>
          ELSE /\ kQueue' = enqueueWallet(kQueue, address, now)
               /\ enqueued' = CountEnqueues({address})
               /\ owed' = owed \cup {address}
               /\ calcHist' = Track(kQueue, {address}, TxPriority, {}, kQueue')
    /\ UNCHANGED <<workerRunning, loops, lastStaleCheck, backfillTimers, kwCols,
                   completed, now, quietForQueue>>

QueueTick ==
    /\ now < MaxNow
    /\ now' = now + TickStep
    /\ UNCHANGED <<kQueue, workerVars, opsLeft, quietForQueue>>

\* The server has ingested one transfer to W1; W2 has no wallets row.
InitQueue ==
    /\ ledger = [s \in Sigs |-> [slot |-> 1, from |-> NoAcct, to |-> "W1", amount |-> 1]]
    /\ wallets = ("W1" :> [first_buy_ts |-> 1001, first_buy_amount |-> 1,
                           total_received |-> 1, total_sent |-> 0,
                           current_balance |-> 1, peak_balance |-> 1,
                           last_tx_signature |-> "S1"])
    /\ transactions = (<<"S1", "W1">> :> [slot |-> 1, block_time |-> 1001,
                                          wallet |-> "W1", amount_change |-> 1])
    /\ kQueue = <<>>
    /\ oneUsdThreshold = NULL
    /\ isPolling = FALSE
    /\ pullLastSlot = 0
    /\ now = 0
    /\ opsLeft = MaxEnq
    /\ applied = [c \in Sigs \X Wallets |-> IF c = <<"S1", "W1">> THEN 1 ELSE 0]
    /\ wslot = [a \in Wallets |-> IF a = "W1" THEN [last |-> 1, max |-> 1]
                                  ELSE [last |-> 0, max |-> 0]]
    /\ batchSlots = <<>>
    /\ holderLog = {}
    /\ hadPositive = {"W1"}
    /\ lastK = NULL
    /\ snapshots = <<>>
    /\ kResult = NoResult
    /\ InitWorkerIdle
    /\ InitRateIdle
    /\ polls = 0
    /\ InitHooksIdle
    /\ InitWsIdle
    /\ InitHttpIdle
    /\ InitLateIdle

NextQueue ==
    \/ startWorker
    \/ stopWorker
    \/ LoopWake
    \/ CalcDone
    \/ Backfill
    \/ handleApiV1Wallet
    \/ QueueTick

SpecQueue == InitQueue /\ [][NextQueue]_vars

(***************************************************************************)
(* Admission control (security.js rateLimitV2, server.js request handler). *)
(* The clock is in ticks of half a minute-window; the tier limits, the     *)
(* cleanup period and the length of the UTC day are scaled down with it.   *)
(***************************************************************************)

\* TIER_LIMITS, for the two tiers the model's identifiers have.
TIER_LIMITS ==
    [public |-> [minute |-> PublicPerMinute, day |-> PublicPerDay],
     free |-> [minute |-> FreePerMinute, day |-> FreePerDay]]

\* db.validateApiKey's metadata for the request: none for an anonymous client; a
\* free-tier key without per-key overrides.
ApiKeyMeta(identifier) ==
    IF identifier = "key"
    THEN [tier |-> "free", rate_limit_minute |-> NULL, rate_limit_day |-> NULL]
    ELSE [tier |-> "public", rate_limit_minute |-> NULL, rate_limit_day |-> NULL]

\* getEndOfDay(): the next UTC midnight after t.
getEndOfDay(t) == ((t \div DayLength) + 1) * DayLength

\* rateLimitV2(identifier, apiKeyMeta) at time t on the Map m: the Map after the
\* call and the `allowed` field of its result.
rateLimitV2(m, identifier, apiKeyMeta, t) ==
    LET limits == TIER_LIMITS[apiKeyMeta.tier]
        minuteLimit == IF apiKeyMeta.rate_limit_minute # NULL
                       THEN apiKeyMeta.rate_limit_minute ELSE limits.minute
        dayLimit == IF apiKeyMeta.rate_limit_day # NULL
                    THEN apiKeyMeta.rate_limit_day ELSE limits.day
    IN  IF identifier \notin DOMAIN m
        THEN [m |-> m @@ (identifier :> [count |-> 1, resetAt |-> t + RateLimitWindow,
                                          dailyCount |-> 1,
                                          dailyResetAt |-> getEndOfDay(t)]),
              allowed |-> TRUE, remaining |-> minuteLimit - 1, retryAfter |-> NULL,
              reason |-> "none"]
        ELSE LET old == m[identifier]
                 minuteExpired == t > old.resetAt
                 dayExpired == t > old.dailyResetAt
                 limit == [count |-> (IF minuteExpired THEN 0 ELSE old.count) + 1,
                           resetAt |-> IF minuteExpired THEN t + RateLimitWindow
                                       ELSE old.resetAt,
                           dailyCount |-> (IF dayExpired THEN 0 ELSE old.dailyCount) + 1,
                           dailyResetAt |-> IF dayExpired THEN getEndOfDay(t)
                                            ELSE old.dailyResetAt]
             IN  [m |-> [m EXCEPT ![identifier] = limit],
                  allowed |-> ~(limit.dailyCount > dayLimit) /\ ~(limit.count > minuteLimit),
                  remaining |-> IF limit.dailyCount > dayLimit \/ limit.count > minuteLimit
                                THEN 0 ELSE minuteLimit - limit.count,
                  retryAfter |-> IF limit.dailyCount > dayLimit
                                 THEN limit.dailyResetAt - t
                                 ELSE IF limit.count > minuteLimit
                                 THEN limit.resetAt - t ELSE NULL,
                  reason |-> IF limit.dailyCount > dayLimit THEN "daily_limit_exceeded"
                             ELSE IF limit.count > minuteLimit
                             THEN "minute_limit_exceeded" ELSE "none"]

\* What the request handler puts in the response from a rateLimitV2 result: the
\* status, X-RateLimit-Remaining, Retry-After and the reason of a 429.
Verdict(rateCheck, t) ==
    [at |-> t, allowed |-> rateCheck.allowed, status |-> IF rateCheck.allowed THEN 200 ELSE 429,
     remaining |-> rateCheck.remaining, retryAfter |-> rateCheck.retryAfter,
     reason |-> rateCheck.reason]

\* One HTTP request up to the rate-limit verdict: 429 when refused, else routed.
Request ==
    /\ opsLeft > 0
    /\ opsLeft' = opsLeft - 1
    /\ \E identifier \in Identifiers :
          LET rateCheck == rateLimitV2(rateLimitsV2, identifier, ApiKeyMeta(identifier), now)
          IN  /\ rateLimitsV2' = rateCheck.m
              /\ allowedAt' = IF rateCheck.allowed
                              THEN [allowedAt EXCEPT ![identifier] = Append(@, now)]
                              ELSE allowedAt
              /\ reqLog' = [reqLog EXCEPT ![identifier] = Append(@, Verdict(rateCheck, now))]
    /\ UNCHANGED <<now, nextCleanup, quietForRate>>

\* The 5-minute setInterval callback: entries idle for a window past resetAt go.
Cleanup ==
    /\ now = nextCleanup
    /\ nextCleanup' = nextCleanup + CleanupEvery
    /\ rateLimitsV2' = [k \in { i \in DOMAIN rateLimitsV2 :
                                  ~(now > rateLimitsV2[i].resetAt + RateLimitWindow) }
                          |-> rateLimitsV2[k]]
    /\ UNCHANGED <<now, opsLeft, allowedAt, reqLog, quietForRate>>

\* Time passes; a due timer fires before the clock moves on.
RateTick ==
    /\ now < MaxTime
    /\ now < nextCleanup
    /\ now' = now + 1
    /\ UNCHANGED <<opsLeft, rateVars, quietForRate>>

InitRate ==
    /\ ledger = [s \in Sigs |-> [slot |-> 1, from |-> NoAcct, to |-> "W1", amount |-> 1]]
    /\ opsLeft = MaxReqs
    /\ InitStore
    /\ InitWorkerIdle
    /\ InitRateIdle
    /\ polls = 0
    /\ InitHooksIdle
    /\ InitWsIdle
    /\ InitHttpIdle
    /\ InitLateIdle

NextRate ==
    \/ Request
    \/ Cleanup
    \/ RateTick

SpecRate == InitRate /\ [][NextRate]_vars

(***************************************************************************)
(* Outbound webhook delivery worker (webhooks.js).  startWorker() has run:  *)
(* its first processDeliveries() found an empty table and the 30 s interval *)
(* is armed.  A POST settles at any later moment: its 10 s abort timer is   *)
(* cleared once the response headers are in, before the body is read.       *)
(***************************************************************************)

RETRY_DELAYS == <<60, 300, 900>>
HookWorkerInterval == 30
PendingLimit == 10
MaxSendAttempts == 3

\* What the actions of the delivery worker leave alone.
quietForHooks == <<ledger, wallets, transactions, kQueue, oneUsdThreshold, isPolling,
                   pullLastSlot, opsLeft, applied, wslot, batchSlots, holderLog, hadPositive, lastK,
                   snapshots, kResult, workerVars, rateVars, polls, wsVars, httpVars, lateVars>>

\* An event is dispatched (triggerKChange from calculateAndSave): dispatchEvent
\* queues one delivery per subscriber.
HookDispatch ==
    /\ Len(deliveries) < MaxDeliveries
    /\ deliveries' = dispatchEvent(subs, deliveries, "k_change")
    /\ hookLog' = hookLog \o [n \in 1..(Len(deliveries') - Len(deliveries)) |-> NoPosts]
    /\ UNCHANGED <<subs, runs, now, quietForHooks>>

\* The setInterval callback, 30 s after the previous one: processDeliveries() up
\* to its first POST.  Nothing holds back a callback while an earlier
\* processDeliveries() is still awaiting a POST.
HookInterval ==
    /\ now < MaxHookNow
    /\ now' = now + HookWorkerInterval
    /\ LET pending == getPendingWebhookDeliveries(deliveries, subs, now', PendingLimit)
       IN  IF pending = <<>>
           THEN UNCHANGED runs
           ELSE /\ \E r \in 1..MaxRuns : runs[r] = <<>>
                /\ LET r == CHOOSE x \in 1..MaxRuns : runs[x] = <<>>
                   IN  runs' = [runs EXCEPT ![r] = pending]
    /\ UNCHANGED <<subs, deliveries, hookLog, quietForHooks>>

\* A POST settles: the body of processDeliveries' loop after sendWebhook, on the
\* row as it was when the run selected it, then on to the next row's POST.
SendDone ==
    \E r \in 1..MaxRuns, success \in BOOLEAN :
        /\ runs[r] # <<>>
        /\ LET delivery == Head(runs[r])
               attempts == delivery.attempts + 1
           IN  IF success
               THEN /\ deliveries' = updateWebhookDelivery(deliveries, delivery.id,
                                                           "success", NULL)
                    /\ subs' = resetWebhookFailure(subs, delivery.subscription_id)
                    /\ hookLog' = [hookLog EXCEPT ![delivery.id].oks = @ + 1]
               ELSE IF attempts >= MaxSendAttempts
               THEN /\ deliveries' = updateWebhookDelivery(deliveries, delivery.id,
                                                           "failed", NULL)
                    /\ subs' = incrementWebhookFailure(subs, delivery.subscription_id)
                    /\ hookLog' = [hookLog EXCEPT ![delivery.id].failIncs = @ + 1]
               ELSE /\ deliveries' = updateWebhookDelivery(deliveries, delivery.id,
                                        "pending", now + RETRY_DELAYS[attempts])
                    /\ UNCHANGED <<subs, hookLog>>
        /\ runs' = [runs EXCEPT ![r] = Tail(@)]
        /\ UNCHANGED <<now, quietForHooks>>

\* The subscription has seen zero to four failed cascades since its last success.
InitHooks ==
    /\ ledger = [s \in Sigs |-> [slot |-> 1, from |-> NoAcct, to |-> "W1", amount |-> 1]]
    /\ opsLeft = 0
    /\ InitStore
    /\ InitWorkerIdle
    /\ InitRateIdle
    /\ polls = 0
    /\ InitWsIdle
    /\ InitHttpIdle
    /\ InitLateIdle
    /\ subs \in { [i \in HookSubs |-> [is_active |-> 1, failure_count |-> f,
                                        events |-> {"k_change"}]] : f \in 0..4 }
    /\ deliveries = <<>>
    /\ runs = [r \in 1..MaxRuns |-> <<>>]
    /\ hookLog = <<>>

NextHooks ==
    \/ HookDispatch
    \/ HookInterval
    \/ SendDone

SpecHooks == InitHooks /\ [][NextHooks]_vars

(***************************************************************************)
(* WebSocket server (websocket.js).  A socket serves one upgrade request.   *)
(* Time is kept per connection as the age of its lastPong, in seconds; an   *)
(* age past HEARTBEAT_TIMEOUT is stored as HEARTBEAT_TIMEOUT + 1, which is  *)
(* all the heartbeat's comparison can tell.  The per-key cap is scaled down *)
(* with the number of sockets.                                              *)
(***************************************************************************)

HEARTBEAT_INTERVAL == 30
HEARTBEAT_TIMEOUT == 60
MAX_CONNECTIONS_PER_KEY == 2

tierOrder == <<"public", "free", "standard", "premium", "internal">>

\* Array.prototype.indexOf: the 0-based position of x, -1 when absent.
indexOf(arr, x) ==
    IF \E i \in DOMAIN arr : arr[i] = x
    THEN (CHOOSE i \in DOMAIN arr : arr[i] = x) - 1
    ELSE -1

\* The ?key= parameter of each socket's request: all but the last socket present
\* the same key.
KeyOf(s) == IF s < MaxSockets THEN "kf" ELSE "kp"

\* db.validateApiKey: the api_keys rows of the two keys.
validateApiKey(key) ==
    IF key = "kf" THEN [tier |-> "free"] ELSE [tier |-> "premium"]

\* What the actions of the WebSocket server leave alone.
quietForWs == <<ledger, wallets, transactions, kQueue, oneUsdThreshold, isPolling,
                pullLastSlot, now, opsLeft, applied, wslot, batchSlots, holderLog, hadPositive, lastK,
                snapshots, kResult, workerVars, rateVars, polls, hookVars,
                buffer, rx, httpVars, lateVars>>

\* A faulty limit test: `>` where the code has `>=`.
atConnectionLimitLax(existingConnections) ==
    Cardinality(existingConnections) > MAX_CONNECTIONS_PER_KEY

\* existingConnections.size >= MAX_CONNECTIONS_PER_KEY
atConnectionLimit(existingConnections) ==
    Cardinality(existingConnections) >= MAX_CONNECTIONS_PER_KEY

\* A faulty tier test: the comparison reversed.
tierAdmitsReversed(clientIndex, minIndex) == clientIndex <= minIndex

\* broadcastToTier's test `clientIndex >= minIndex`.
tierAdmits(clientIndex, minIndex) == clientIndex >= minIndex

\* A faulty heartbeat test that never reports a timeout.
timedOutNever(age) == FALSE

\* The heartbeat's test `now - meta.lastPong > HEARTBEAT_TIMEOUT`.
timedOut(age) == age > HEARTBEAT_TIMEOUT

Frames(to) == [to |-> [s \in Sockets |-> IF s \in DOMAIN to THEN to[s] ELSE {}],
               minTier |-> "none"]

\* handleClose(socket) on the two Maps and the heartbeat timer.
handleClose(cl, kc, hb, socket) ==
    IF socket \notin DOMAIN cl
    THEN [cl |-> cl, kc |-> kc, hb |-> hb]
    ELSE LET key == cl[socket].key
             cl2 == [x \in DOMAIN cl \ {socket} |-> cl[x]]
             kc2 == IF key \notin DOMAIN kc THEN kc
                    ELSE IF kc[key] \ {socket} = {}
                    THEN [k \in DOMAIN kc \ {key} |-> kc[k]]
                    ELSE [kc EXCEPT ![key] = @ \ {socket}]
         IN  [cl |-> cl2, kc |-> kc2,
              hb |-> IF DOMAIN cl2 = {} THEN NULL ELSE hb]

\* handleUpgrade from the return of validateApiKey to its end: the limit, the
\* header check, the 101 response, the registration, startHeartbeat().
handleUpgrade ==
    \E socket \in fresh, validHeaders \in BOOLEAN :
        LET apiKey == KeyOf(socket)
            keyMeta == validateApiKey(apiKey)
            existingConnections == IF apiKey \in DOMAIN keyConnections
                                   THEN keyConnections[apiKey] ELSE {}
        IN  /\ fresh' = fresh \ {socket}
            /\ IF atConnectionLimit(existingConnections)
               THEN /\ wire' = Frames(socket :> {"429"})
                    /\ UNCHANGED <<clients, keyConnections, heartbeatIn>>
               ELSE IF ~validHeaders
               THEN /\ wire' = Frames(socket :> {"400"})
                    /\ UNCHANGED <<clients, keyConnections, heartbeatIn>>
               ELSE /\ clients' = clients @@
                          (socket :> [key |-> apiKey, tier |-> keyMeta.tier, age |-> 0])
                    /\ keyConnections' =
                          [k \in DOMAIN keyConnections \cup {apiKey} |->
                             IF k = apiKey THEN existingConnections \cup {socket}
                             ELSE keyConnections[k]]
                    /\ wire' = Frames(socket :> {"101", "connected"})
                    /\ heartbeatIn' = IF heartbeatIn = NULL THEN HEARTBEAT_INTERVAL
                                      ELSE heartbeatIn
            /\ UNCHANGED <<closing, quietForWs>>

\* handleData on a PONG frame.
handlePong ==
    \E socket \in DOMAIN clients :
        /\ clients[socket].age # 0
        /\ clients' = [clients EXCEPT ![socket].age = 0]
        /\ wire' = Frames(<<>>)
        /\ UNCHANGED <<keyConnections, heartbeatIn, closing, fresh, quietForWs>>

\* The socket's 'close' or 'error' event: the client went away.
socketClosed ==
    \E socket \in DOMAIN clients :
        LET r == handleClose(clients, keyConnections, heartbeatIn, socket)
        IN  /\ clients' = r.cl
            /\ keyConnections' = r.kc
            /\ heartbeatIn' = r.hb
            /\ wire' = Frames(<<>>)
            /\ UNCHANGED <<closing, fresh, quietForWs>>

\* The 100 ms timer set by the heartbeat fires: socket.destroy(), handleClose.
closeTimeout ==
    \E socket \in closing :
        LET r == handleClose(clients, keyConnections, heartbeatIn, socket)
        IN  /\ closing' = closing \ {socket}
            /\ clients' = r.cl
            /\ keyConnections' = r.kc
            /\ heartbeatIn' = r.hb
            /\ wire' = Frames(<<>>)
            /\ UNCHANGED <<fresh, quietForWs>>

\* The heartbeat callback is due within the next WsStep seconds.
HeartbeatDue == heartbeatIn # NULL /\ heartbeatIn <= WsStep

\* The age of a lastPong after WsStep more seconds.
Aged(age) ==
    IF age + WsStep > HEARTBEAT_TIMEOUT THEN HEARTBEAT_TIMEOUT + 1 ELSE age + WsStep

\* WsStep seconds pass; the 100 ms timers have fired before.  When the heartbeat
\* interval elapses its callback runs: a close frame and a destroy timer for each
\* connection whose lastPong is over the timeout, a ping for the others.
WsTick ==
    /\ closing = {}
    /\ clients' = [s \in DOMAIN clients |-> [clients[s] EXCEPT !.age = Aged(@)]]
    /\ IF HeartbeatDue
       THEN /\ closing' = { s \in DOMAIN clients : timedOut(clients'[s].age) }
            /\ wire' = Frames([s \in DOMAIN clients |->
                                 IF timedOut(clients'[s].age) THEN {"close"} ELSE {"ping"}])
            /\ heartbeatIn' = HEARTBEAT_INTERVAL
       ELSE /\ closing' = closing
            /\ wire' = Frames(<<>>)
            /\ heartbeatIn' = IF heartbeatIn = NULL THEN NULL ELSE heartbeatIn - WsStep
    /\ UNCHANGED <<keyConnections, fresh, quietForWs>>

\* broadcastToTier(event, data, minTier) for a minTier of the tier order.
broadcastToTier ==
    \E minTier \in { tierOrder[i] : i \in DOMAIN tierOrder } :
        LET minIndex == indexOf(tierOrder, minTier)
        IN  /\ wire' = [to |-> [s \in Sockets |->
                                  IF /\ s \in DOMAIN clients
                                     /\ tierAdmits(indexOf(tierOrder, clients[s].tier),
                                                   minIndex)
                                  THEN {"event"} ELSE {}],
                        minTier |-> minTier]
            /\ UNCHANGED <<clients, keyConnections, heartbeatIn, closing, fresh,
                           quietForWs>>

InitWs ==
    /\ ledger = [s \in Sigs |-> [slot |-> 1, from |-> NoAcct, to |-> "W1", amount |-> 1]]
    /\ opsLeft = 0
    /\ InitStore
    /\ InitWorkerIdle
    /\ InitRateIdle
    /\ polls = 0
    /\ InitHooksIdle
    /\ InitWsIdle
    /\ InitHttpIdle
    /\ InitLateIdle

NextWs ==
    \/ handleUpgrade
    \/ handlePong
    \/ socketClosed
    \/ closeTimeout
    \/ WsTick
    \/ broadcastToTier

SpecWs == InitWs /\ [][NextWs]_vars

\* Timers fire: the clock moves on and a pending destroy timer runs.
SpecWsLive == SpecWs /\ WF_vars(WsTick) /\ WF_vars(closeTimeout)

(***************************************************************************)
(* WebSocket frames (websocket.js decodeFrame, handleData).  A buffer is a  *)
(* sequence of bytes.  The text of a payload is one byte: TextPing stands   *)
(* for the JSON text {"action":"ping"}, any other byte for another text.    *)
(***************************************************************************)

OPCODE == [CONTINUATION |-> 0, TEXT |-> 1, BINARY |-> 2, CLOSE |-> 8, PING |-> 9,
           PONG |-> 10]

TextPing == 112

\* The ^ of two bytes.
RECURSIVE XorBits(_, _, _)
XorBits(a, b, n) ==
    IF n = 0 THEN 0
    ELSE ((a + b) % 2) + 2 * XorBits(a \div 2, b \div 2, n - 1)

\* buffer.slice(from, to) with 0-based bounds.
slice(buf, from, to) ==
    IF to > Len(buf) THEN SubSeq(buf, from + 1, Len(buf)) ELSE SubSeq(buf, from + 1, to)

\* decodeFrame(buffer): the empty sequence for null, else the frame in a
\* one-element sequence.  The masked bit is read and used to unmask; a frame
\* without it is returned like any other.
decodeFrame(buf) ==
    IF Len(buf) < 2 THEN <<>>
    ELSE LET firstByte == buf[1]
             secondByte == buf[2]
             fin == firstByte \div 128 = 1
             opcode == firstByte % 16
             masked == secondByte \div 128 = 1
             len7 == secondByte % 128
             short == (len7 = 126 /\ Len(buf) < 4) \/ (len7 = 127 /\ Len(buf) < 10)
             payloadLength == IF len7 = 126 THEN buf[3] * 256 + buf[4]
                              ELSE IF len7 = 127
                              THEN ((buf[7] * 256 + buf[8]) * 256 + buf[9]) * 256 + buf[10]
                              ELSE len7
             offset0 == IF len7 = 126 THEN 4 ELSE IF len7 = 127 THEN 10 ELSE 2
             offset == IF masked THEN offset0 + 4 ELSE offset0
         IN  IF short THEN <<>>
             ELSE IF masked /\ Len(buf) < offset0 + 4 THEN <<>>
             ELSE IF Len(buf) < offset + payloadLength THEN <<>>
             ELSE LET raw == slice(buf, offset, offset + payloadLength)
                      maskingKey == slice(buf, offset0, offset0 + 4)
                  IN  << [fin |-> fin, opcode |-> opcode,
                          payload |-> IF masked
                                      THEN [i \in DOMAIN raw |->
                                              XorBits(raw[i], maskingKey[((i - 1) % 4) + 1], 8)]
                                      ELSE raw,
                          totalLength |-> offset + payloadLength] >>

\* handleData's while loop: the frames it dispatches and the bytes it leaves.
\* Each dispatched frame is recorded with the masked bit of its second byte.
RECURSIVE Drain(_, _)
Drain(buf, acc) ==
    IF Len(buf) < 2 THEN [buffer |-> buf, frames |-> acc]
    ELSE LET d == decodeFrame(buf)
         IN  IF d = <<>> THEN [buffer |-> buf, frames |-> acc]
             ELSE Drain(slice(buf, d[1].totalLength, Len(buf)),
                        Append(acc, [opcode |-> d[1].opcode,
                                     payload |-> d[1].payload,
                                     masked |-> buf[2] \div 128 = 1]))

\* What the server writes back for one dispatched frame: handleMessage's
\* 'pong' event, sendPong's PONG frame, socket.end() on a CLOSE.
ReplyTo(f) ==
    IF f.opcode = OPCODE.TEXT
    THEN (IF f.payload = <<TextPing>> THEN {"event:pong"} ELSE {})
    ELSE IF f.opcode = OPCODE.PING THEN {"pong"}
    ELSE IF f.opcode = OPCODE.CLOSE THEN {"end"}
    ELSE {}

\* The chunks a client sends: whole frames, masked and unmasked, and a masked
\* PONG split over two chunks.
Chunks ==
    { <<138, 0>>, <<138, 128, 1, 2, 3, 4>>,
      <<129, 1, 112>>, <<129, 129, 1, 2, 3, 4, 113>>,
      <<137, 0>>, <<136, 128, 1, 2, 3, 4>>,
      <<138, 128, 1>>, <<2, 3, 4>> }

\* The socket's 'data' event: handleData(socket, data).
handleData ==
    \E socket \in DOMAIN clients, data \in Chunks :
        /\ Len(buffer[socket]) + Len(data) <= MaxBuf
        /\ LET r == Drain(buffer[socket] \o data, <<>>)
               gotPong == \E i \in DOMAIN r.frames : r.frames[i].opcode = OPCODE.PONG
           IN  /\ buffer' = [buffer EXCEPT ![socket] = r.buffer]
               /\ rx' = [data |-> data, frames |-> r.frames]
               /\ clients' = IF gotPong THEN [clients EXCEPT ![socket].age = 0]
                             ELSE clients
               /\ wire' = Frames(socket :>
                             UNION { ReplyTo(r.frames[i]) : i \in DOMAIN r.frames })
        /\ UNCHANGED <<keyConnections, heartbeatIn, closing, fresh, ledger, wallets,
                       transactions, kQueue, oneUsdThreshold, isPolling, pullLastSlot,
                       now, opsLeft, applied, wslot, batchSlots, holderLog, hadPositive, lastK, snapshots,
                       kResult, workerVars, rateVars, polls, hookVars, httpVars, lateVars>>

\* One client is connected: the state after handleUpgrade of socket 1.
InitFrames ==
    /\ ledger = [s \in Sigs |-> [slot |-> 1, from |-> NoAcct, to |-> "W1", amount |-> 1]]
    /\ opsLeft = 0
    /\ InitStore
    /\ InitWorkerIdle
    /\ InitRateIdle
    /\ polls = 0
    /\ InitHooksIdle
    /\ clients = (1 :> [key |-> KeyOf(1), tier |-> validateApiKey(KeyOf(1)).tier,
                        age |-> 0])
    /\ keyConnections = (KeyOf(1) :> {1})
    /\ heartbeatIn = HEARTBEAT_INTERVAL
    /\ closing = {}
    /\ fresh = {}
    /\ wire = NoFrames
    /\ buffer = [s \in Sockets |-> <<>>]
    /\ rx = NoData
    /\ InitHttpIdle
    /\ InitLateIdle

NextFrames ==
    \/ handleData
    \/ WsTick
    \/ closeTimeout

SpecFrames == InitFrames /\ [][NextFrames]_vars

(***************************************************************************)
(* HTTP front (server.js request handler, router.js, routes).  A request   *)
(* body is [form, events]: the JSON text as sent is either compact, the     *)
(* form JSON.stringify produces, or spaced.  A digest is [len, mac]: the    *)
(* length of the hex string and what it is the HMAC of.                     *)
(***************************************************************************)

\* Table api_keys, by the key presented: one active free-tier key, one
\* deactivated, one expired.  Any other key is unknown.
ApiKeyRows ==
    [kf |-> [id |-> "key", tier |-> "free", is_active |-> 1, expires_at |-> NULL,
             rate_limit_minute |-> NULL, rate_limit_day |-> NULL],
     ki |-> [id |-> "key", tier |-> "free", is_active |-> 0, expires_at |-> NULL,
             rate_limit_minute |-> NULL, rate_limit_day |-> NULL],
     kx |-> [id |-> "key", tier |-> "free", is_active |-> 1, expires_at |-> 0,
             rate_limit_minute |-> NULL, rate_limit_day |-> NULL]]

\* The X-Oracle-Key header: absent, or one of four keys.
KeyHeaders == {"none", "kf", "ki", "kx", "ku"}

\* db.validateApiKey(key) at time t: the row in a one-element sequence, the
\* empty sequence for null.
validateApiKeyRow(key, t) ==
    IF /\ key \in DOMAIN ApiKeyRows
       /\ ApiKeyRows[key].is_active = 1
       /\ (ApiKeyRows[key].expires_at = NULL \/ ApiKeyRows[key].expires_at > t)
    THEN <<ApiKeyRows[key]>>
    ELSE <<>>

\* createHmac('sha256', secret).update(payload).digest('hex')
hmacHex(secret, payload) ==
    [len |-> 64, mac |-> <<secret, payload.form, payload.events>>]

\* JSON.stringify(req.body), req.body being JSON.parse of the text received.
stringifyParsed(body) == [form |-> "compact", events |-> body.events]

\* crypto.timingSafeEqual on the two Buffers: a RangeError when their byte
\* lengths differ.
timingSafeEqual(a, b) ==
    IF a.len # b.len THEN [threw |-> TRUE, equal |-> FALSE]
    ELSE [threw |-> FALSE, equal |-> a = b]

\* webhook.verifySignature(payload, signature); an absent header is
\* Buffer.from('').
verifySignature(payload, signature) ==
    IF env.secret = ""
    THEN [threw |-> FALSE, equal |-> TRUE]
    ELSE timingSafeEqual(signature, hmacHex(env.secret, payload))

\* The values of X-Helius-Signature sent with a body: none, a short string, the
\* digest under another secret, the digest of the text as sent, the digest of
\* its compact form.
SignatureHeaders(body) ==
    { [len |-> 0, mac |-> <<"", "compact", <<>>>>],
      [len |-> 10, mac |-> <<"s1", "compact", <<>>>>],
      hmacHex("s2", body),
      hmacHex("s1", body),
      hmacHex("s1", stringifyParsed(body)) }

Bodies == [form : {"compact", "spaced"}, events : Batches]

\* handleWebhook: the response and the Store after it.
handleWebhook(st, body, signature, t) ==
    LET v == verifySignature(stringifyParsed(body), signature)
    IN  IF v.threw
        THEN [status |-> 500, reason |-> "error", st |-> st, handed |-> FALSE]
        ELSE IF ~v.equal
        THEN [status |-> 401, reason |-> "Invalid signature", st |-> st,
              handed |-> FALSE]
        ELSE [status |-> 200, reason |-> "received",
              st |-> processEvents(st, body.events, t), handed |-> TRUE]

\* handleApiV1WebhookEvents: open to everyone.
handleApiV1WebhookEvents(st) ==
    [status |-> 200, reason |-> "events", st |-> st, handed |-> FALSE]

\* handleApiV1ListWebhooks: requireApiKey(req) is req.apiKeyMeta.
handleApiV1ListWebhooks(st, apiKeyMeta) ==
    IF apiKeyMeta = <<>>
    THEN [status |-> 401, reason |-> "API key required", st |-> st, handed |-> FALSE]
    ELSE [status |-> 200, reason |-> "webhooks", st |-> st, handed |-> FALSE]

\* The holder-gating policy of the cross-token endpoint: an admin key opens it;
\* otherwise the caller's balance is read from the Store, from the upstream
\* RPC when the Store fails or is empty; without either the policy decides.
KGlobalMinBalance == 2

checkKGlobalAccess(ws, address, adminOk, storeFails, rpc) ==
    LET fromStore == ~storeFails /\ ws # <<>>
        balance == IF fromStore
                   THEN (IF address \in DOMAIN ws THEN ws[address].current_balance ELSE 0)
                   ELSE rpc.balance
    IN  IF adminOk THEN [allowed |-> TRUE, reason |-> "admin"]
        ELSE IF ~fromStore /\ ~rpc.ok
        THEN (IF env.failClosed
              THEN [allowed |-> FALSE, reason |-> "verification_unavailable"]
              ELSE [allowed |-> TRUE, reason |-> "fail_open"])
        ELSE IF balance = 0 THEN [allowed |-> FALSE, reason |-> "not_holder"]
        ELSE IF balance < KGlobalMinBalance
        THEN [allowed |-> FALSE, reason |-> "insufficient_balance"]
        ELSE [allowed |-> TRUE, reason |-> "holder"]

RpcResults == { [ok |-> FALSE, balance |-> 0] }
                 \cup { [ok |-> TRUE, balance |-> b] : b \in 0..KGlobalMinBalance }

\* A faulty handler that goes on to serve the score whatever the access check says.
handleGetWalletKGlobalOpen(st, cols, address, accessCheck, storeFails, memory, t) ==
    IF storeFails
    THEN [status |-> 500, reason |-> "error", st |-> st, handed |-> FALSE]
    ELSE [status |-> 200, reason |-> "db", st |-> st, handed |-> FALSE]

\* handleGetWalletKGlobal after validateAddress: 403 with the access check's
\* reason, else the stored score, the in-memory status, or an enqueue and 202.
handleGetWalletKGlobal(st, cols, address, accessCheck, storeFails, memory, t) ==
    IF ~accessCheck.allowed
    THEN [status |-> 403, reason |-> accessCheck.reason, st |-> st, handed |-> FALSE]
    ELSE IF storeFails
    THEN [status |-> 500, reason |-> "error", st |-> st, handed |-> FALSE]
    ELSE IF address \in DOMAIN st.w /\ cols[address].k_wallet # NULL
    THEN [status |-> 200, reason |-> "db",
          st |-> IF t - cols[address].updated_at > 86400
                 THEN [st EXCEPT !.q = enqueueWallet(@, address, t)] ELSE st,
          handed |-> FALSE]
    ELSE IF memory = "ready"
    THEN [status |-> 200, reason |-> "memory", st |-> st, handed |-> FALSE]
    ELSE IF memory = "calculating"
    THEN [status |-> 202, reason |-> "calculating", st |-> st, handed |-> FALSE]
    ELSE [status |-> 202, reason |-> "queued",
          st |-> [st EXCEPT !.q = enqueueWallet(@, address, t)], handed |-> FALSE]

\* The requests made: each route with the inputs its handler reads.  The
\* indexer's pushes and the k-global calls carry no X-Oracle-Key.
PlainRequest(route) ==
    [route |-> route, key |-> "none", body |-> [form |-> "compact", events |-> <<>>],
     signature |-> [len |-> 0, mac |-> <<"", "compact", <<>>>>], address |-> "W1",
     adminOk |-> FALSE, storeFails |-> FALSE, rpc |-> [ok |-> FALSE, balance |-> 0],
     memory |-> "unknown"]

Requests ==
    UNION { { [PlainRequest("POST /k-metric/webhook") EXCEPT !.body = b, !.signature = g] :
                g \in SignatureHeaders(b) } : b \in Bodies }
    \cup { [PlainRequest(route) EXCEPT !.key = k] :
             route \in {"GET /api/v1/webhooks/events", "GET /api/v1/webhooks"},
             k \in KeyHeaders }
    \cup { [PlainRequest("GET /k-metric/wallet/:addr/k-global") EXCEPT
              !.address = a, !.adminOk = ad, !.storeFails = sf, !.rpc = rp,
              !.memory = mem] :
           a \in Wallets, ad \in BOOLEAN, sf \in BOOLEAN, rp \in RpcResults,
           mem \in {"ready", "calculating", "unknown"} }

\* One HTTP request through the server's handler: the API key, the rate limit,
\* the route.
serverRequest ==
    /\ opsLeft > 0
    /\ opsLeft' = opsLeft - 1
    /\ \E req \in Requests :
          LET route == req.route
              key == req.key
              body == req.body
              signature == req.signature
              address == req.address
              adminOk == req.adminOk
              storeFails == req.storeFails
              rpc == req.rpc
              memory == req.memory
              apiKeyMeta == IF key = "none" THEN <<>> ELSE validateApiKeyRow(key, now)
              rateLimitId == IF apiKeyMeta # <<>> THEN apiKeyMeta[1].id ELSE "ip"
              rateCheck == rateLimitV2(rateLimitsV2, rateLimitId,
                                       IF apiKeyMeta # <<>> THEN apiKeyMeta[1]
                                       ELSE ApiKeyMeta("ip"), now)
              r == IF route = "POST /k-metric/webhook"
                   THEN handleWebhook(Store, body, signature, now)
                   ELSE IF route = "GET /api/v1/webhooks/events"
                   THEN handleApiV1WebhookEvents(Store)
                   ELSE IF route = "GET /api/v1/webhooks"
                   THEN handleApiV1ListWebhooks(Store, apiKeyMeta)
                   ELSE handleGetWalletKGlobal(Store, kwCols, address,
                           checkKGlobalAccess(wallets, address, adminOk, storeFails, rpc),
                           storeFails, memory, now)
              sent == [route |-> route, key |-> key,
                       signed |-> IF route = "POST /k-metric/webhook"
                                  THEN (IF signature = hmacHex(env.secret, body)
                                        THEN "match" ELSE IF signature.len = 0
                                        THEN "absent" ELSE IF signature.len # 64
                                        THEN "short" ELSE "wrong")
                                  ELSE "none",
                       unverifiable |-> route = "GET /k-metric/wallet/:addr/k-global"
                                        /\ ~adminOk /\ storeFails /\ ~rpc.ok,
                       remaining |-> rateCheck.remaining,
                       retryAfter |-> rateCheck.retryAfter]
          IN  /\ rateLimitsV2' = rateCheck.m
              /\ allowedAt' = IF rateCheck.allowed
                              THEN [allowedAt EXCEPT ![rateLimitId] = Append(@, now)]
                              ELSE allowedAt
              /\ reqLog' = [reqLog EXCEPT ![rateLimitId] = Append(@, Verdict(rateCheck, now))]
              /\ IF ~rateCheck.allowed
                 THEN /\ resp' = sent @@ [status |-> 429, reason |-> rateCheck.reason,
                                          handed |-> FALSE]
                      /\ UNCHANGED <<wallets, transactions, kQueue, applied, wslot, batchSlots, holderLog,
                                     hadPositive>>
                 ELSE /\ resp' = sent @@ [status |-> r.status, reason |-> r.reason,
                                          handed |-> r.handed]
                      /\ SetStore(r.st)
    /\ UNCHANGED <<ledger, oneUsdThreshold, isPolling, pullLastSlot, now, lastK,
                   snapshots, kResult, workerVars, nextCleanup, polls, hookVars,
                   wsVars, env, lateVars>>

\* Any deployment configuration; the Store is empty and no request was made.
InitHttp ==
    /\ ledger = [S1 |-> [slot |-> 1, from |-> NoAcct, to |-> "W1", amount |-> 1],
                 S2 |-> [slot |-> 2, from |-> "W1", to |-> "W2", amount |-> 1]]
    /\ opsLeft = MaxHttpReqs
    /\ InitStore
    /\ InitWorkerIdle
    /\ InitRateIdle
    /\ polls = 0
    /\ InitHooksIdle
    /\ InitWsIdle
    /\ env \in [secret : {"", "s1"}, production : BOOLEAN, failClosed : BOOLEAN]
    /\ resp = NoResponse
    /\ InitLateIdle

NextHttp == serverRequest

SpecHttp == InitHttp /\ [][NextHttp]_vars

(***************************************************************************)
(* API keys (db/api-keys.js) behind the LRU cache of cache.js.  The clock  *)
(* moves in steps of KeyStep seconds.                                      *)
(***************************************************************************)

\* cache.js: apiKeyCache = new LRUCache({ ttl: 5 * 60 * 1000 }), in seconds.
ApiKeyCacheTTL == 300

\* What the actions on the API keys leave alone.
quietForKeys == <<ledger, wallets, transactions, kQueue, oneUsdThreshold, isPolling,
                  pullLastSlot, opsLeft, applied, wslot, batchSlots, holderLog, hadPositive, lastK,
                  snapshots, kResult, workerVars, rateVars, polls, hookVars, wsVars,
                  httpVars, tokenVars, memVars>>

\* LRUCache.get(key) at time t: the entry's value in a one-element sequence, the
\* empty sequence for undefined (no entry, or Date.now() > entry.expiresAt).
cacheGet(cache, key, t) ==
    IF cache[key] # <<>> /\ ~(t > cache[key][1].expiresAt)
    THEN <<cache[key][1].value>>
    ELSE <<>>

\* LRUCache.set(key, value) at time t with the default TTL.
cacheSet(cache, key, value, t) ==
    [cache EXCEPT ![key] = <<[value |-> value, expiresAt |-> t + ApiKeyCacheTTL]>>]

\* db.validateApiKey(key) at time t: the cached answer when there is one (a
\* cached null included), else the SELECT, whose answer is cached.  The row, or
\* null, is a sequence of one or no element.
validateApiKeyCached(tbl, cache, key, t) ==
    LET cached == cacheGet(cache, key, t)
        row == IF /\ key \in DOMAIN tbl
                  /\ tbl[key].is_active = 1
                  /\ (tbl[key].expires_at = NULL \/ tbl[key].expires_at > t)
               THEN <<tbl[key]>>
               ELSE <<>>
    IN  IF cached # <<>>
        THEN [result |-> cached[1], cache |-> cache]
        ELSE [result |-> row, cache |-> cacheSet(cache, key, row, t)]

\* UPDATE api_keys SET is_active = 0 WHERE id = ?
revokeApiKey(tbl, id) ==
    IF id \in DOMAIN tbl THEN [tbl EXCEPT ![id].is_active = 0] ELSE tbl

\* A request or a WebSocket upgrade presents a key: db.validateApiKey(key).
ValidateKey ==
    /\ keyLog.n < MaxKeyOps
    /\ \E key \in DOMAIN apiKeys :
          LET v == validateApiKeyCached(apiKeys, apiKeyCache, key, now)
          IN  /\ apiKeyCache' = v.cache
              /\ keyLog' = [n |-> keyLog.n + 1, key |-> key, accepted |-> v.result # <<>>]
    /\ UNCHANGED <<apiKeys, now, quietForKeys>>

\* DELETE /k-metric/admin/api-keys/:id with the admin key: getApiKey finds the
\* row, revokeApiKey clears is_active and returns true.
handleAdminRevokeApiKey ==
    /\ \E id \in DOMAIN apiKeys : apiKeys' = revokeApiKey(apiKeys, id)
    /\ UNCHANGED <<apiKeyCache, keyLog, now, quietForKeys>>

KeyTick ==
    /\ now < MaxKeyNow
    /\ now' = now + KeyStep
    /\ UNCHANGED <<keyVars, quietForKeys>>

InitKeys ==
    /\ ledger = [s \in Sigs |-> [slot |-> 1, from |-> NoAcct, to |-> "W1", amount |-> 1]]
    /\ opsLeft = 0
    /\ InitStore
    /\ InitWorkerIdle
    /\ InitRateIdle
    /\ polls = 0
    /\ InitHooksIdle
    /\ InitWsIdle
    /\ InitHttpIdle
    /\ InitLateIdle

NextKeys ==
    \/ ValidateKey
    \/ handleAdminRevokeApiKey
    \/ KeyTick

SpecKeys == InitKeys /\ [][NextKeys]_vars

(***************************************************************************)
(* Token K registry and its queue (db/tokens.js, token-score.js).  The     *)
(* clock moves in steps of TokenStep seconds; the 30 s sleep of the loop   *)
(* elapses within a step.  The statements of a Store function, and the     *)
(* functions a caller awaits one after the other without I/O in between,   *)
(* run without any other callback in between.                              *)
(***************************************************************************)

TOKEN_K_TTL == 3600
TokenLockDuration == 600
TokenMaxAttempts == 3

\* What the actions on the token queue leave alone.
quietForTokens == <<ledger, wallets, transactions, kQueue, oneUsdThreshold, isPolling,
                    pullLastSlot, opsLeft, applied, wslot, batchSlots, holderLog, hadPositive, lastK,
                    snapshots, kResult, workerVars, rateVars, polls, hookVars, wsVars,
                    httpVars, keyVars, memVars>>

\* enqueueToken: tokens.sync_status = 'queued' (row inserted when missing), then
\* the token_queue upsert: priority = MAX, locked_until = NULL, attempts kept.
enqueueToken(tk, q, mint, priority, t) ==
    [tk |-> IF mint \in DOMAIN tk
            THEN [tk EXCEPT ![mint].sync_status = "queued"]
            ELSE tk @@ (mint :> [k |-> NULL, last_sync |-> NULL, sync_status |-> "queued"]),
     q |-> IF mint \notin DOMAIN q
           THEN q @@ (mint :> [priority |-> priority, attempts |-> 0,
                               created_at |-> t, locked_until |-> NULL])
           ELSE [q EXCEPT ![mint].priority = Max(@, priority),
                          ![mint].locked_until = NULL]]

\* dequeueToken's two UPDATEs for the selected mint: the lease, then 'syncing'.
dequeueToken(tk, q, mint, t) ==
    [tk |-> IF mint \in DOMAIN tk THEN [tk EXCEPT ![mint].sync_status = "syncing"] ELSE tk,
     q |-> [q EXCEPT ![mint].locked_until = t + TokenLockDuration]]

\* completeToken: upsertToken with the result and 'ready', then DELETE the row.
completeToken(tk, q, mint, k, t) ==
    [tk |-> IF mint \in DOMAIN tk
            THEN [tk EXCEPT ![mint] = [k |-> k, last_sync |-> t, sync_status |-> "ready"]]
            ELSE tk @@ (mint :> [k |-> k, last_sync |-> t, sync_status |-> "ready"]),
     q |-> [m \in DOMAIN q \ {mint} |-> q[m]]]

\* A faulty failToken that leaves tokens.sync_status alone.
failTokenSilent(tk, q, mint) ==
    [tk |-> tk,
     q |-> IF mint \in DOMAIN q
           THEN [q EXCEPT ![mint].attempts = @ + 1, ![mint].locked_until = NULL]
           ELSE q]

\* failToken: attempts + 1 and the lease cleared, then sync_status = 'error'.
failToken(tk, q, mint) ==
    [tk |-> IF mint \in DOMAIN tk THEN [tk EXCEPT ![mint].sync_status = "error"] ELSE tk,
     q |-> IF mint \in DOMAIN q
           THEN [q EXCEPT ![mint].attempts = @ + 1, ![mint].locked_until = NULL]
           ELSE q]

\* cleanupTokenQueue(maxAttempts): DELETE FROM token_queue WHERE attempts >= ?
cleanupTokenQueue(q, maxAttempts) ==
    [m \in { b \in DOMAIN q : q[b].attempts < maxAttempts } |-> q[m]]

\* token-score.getTokenK(mint) for a mint other than the primary token: the
\* tables after the call and the status field of the answer ("cached" for an
\* answer that carries the stored K).
getTokenK(tk, q, mint, t) ==
    LET has == mint \in DOMAIN tk
        enq(p) == enqueueToken(tk, q, mint, p, t)
    IN  IF has /\ tk[mint].k # NULL
        THEN IF t - tk[mint].last_sync < TOKEN_K_TTL \/ tk[mint].sync_status = "syncing"
             THEN [tk |-> tk, q |-> q, status |-> "cached"]
             ELSE [tk |-> enq(5).tk, q |-> enq(5).q, status |-> "cached"]
        ELSE IF has /\ tk[mint].sync_status = "syncing"
        THEN [tk |-> tk, q |-> q, status |-> "syncing"]
        ELSE IF has /\ tk[mint].sync_status = "queued"
        THEN [tk |-> tk, q |-> q, status |-> "queued"]
        ELSE [tk |-> enq(10).tk, q |-> enq(10).q, status |-> "queued"]

\* GET /api/v1/token/:mint.
handleApiV1Token ==
    /\ tokenReqsLeft > 0
    /\ tokenReqsLeft' = tokenReqsLeft - 1
    /\ \E mint \in Mints :
          LET r == getTokenK(tokens, tokenQueue, mint, now)
          IN  /\ tokens' = r.tk
              /\ tokenQueue' = r.q
              /\ tokenResp' = [mint |-> mint, status |-> r.status]
    /\ UNCHANGED <<tokenLoops, tokenWorkerRunning, now, quietForTokens>>

\* One pass of the token loop's body from dequeueToken to the first RPC of
\* calculateTokenK (a mint was dequeued) or to the sleep (none was).
TokenIteration(l) ==
    LET cands == DequeueCandidates(tokenQueue, now)
    IN  IF cands = {}
        THEN /\ tokenQueue' = cleanupTokenQueue(tokenQueue, TokenMaxAttempts)
             /\ tokenLoops' = [tokenLoops EXCEPT ![l] = [pc |-> "sleep", key |-> "none"]]
             /\ UNCHANGED tokens
        ELSE \E mint \in cands :
             LET r == dequeueToken(tokens, tokenQueue, mint, now)
             IN  /\ tokens' = r.tk
                 /\ tokenQueue' = r.q
                 /\ tokenLoops' = [tokenLoops EXCEPT ![l] = [pc |-> "calc", key |-> mint]]

\* token-score.startWorker(): returns when the flag is set; else sets it and
\* enters the loop.
tokenStartWorker ==
    /\ \E l \in 1..MaxTokenLoops : tokenLoops[l].pc = "none"
    /\ IF tokenWorkerRunning
       THEN UNCHANGED <<tokens, tokenQueue, tokenLoops, tokenWorkerRunning>>
       ELSE LET l == CHOOSE x \in 1..MaxTokenLoops : tokenLoops[x].pc = "none"
            IN  /\ tokenWorkerRunning' = TRUE
                /\ TokenIteration(l)
    /\ UNCHANGED <<tokenReqsLeft, tokenResp, now, quietForTokens>>

tokenStopWorker ==
    /\ tokenWorkerRunning' = FALSE
    /\ UNCHANGED <<tokens, tokenQueue, tokenLoops, tokenReqsLeft, tokenResp, now,
                   quietForTokens>>

\* The loop's sleep ends: the `while (workerRunning)` test, then the next pass.
TokenLoopWake ==
    \E l \in 1..MaxTokenLoops :
        /\ tokenLoops[l].pc = "sleep"
        /\ IF tokenWorkerRunning
           THEN TokenIteration(l)
           ELSE /\ tokenLoops' = [tokenLoops EXCEPT ![l].pc = "exit"]
                /\ UNCHANGED <<tokens, tokenQueue>>
        /\ UNCHANGED <<tokenWorkerRunning, tokenReqsLeft, tokenResp, now, quietForTokens>>

\* calculateTokenK settles: completeToken with the result (K null for a token
\* without holders), or failToken on a throw; then the cleaner, then the sleep.
TokenCalcDone ==
    \E l \in 1..MaxTokenLoops :
        /\ tokenLoops[l].pc = "calc"
        /\ LET mint == tokenLoops[l].key
           IN  \/ \E k \in {NULL, 50} :
                    LET r == completeToken(tokens, tokenQueue, mint, k, now)
                    IN  /\ tokens' = r.tk
                        /\ tokenQueue' = cleanupTokenQueue(r.q, TokenMaxAttempts)
               \/ LET r == failToken(tokens, tokenQueue, mint)
                  IN  /\ tokens' = r.tk
                      /\ tokenQueue' = cleanupTokenQueue(r.q, TokenMaxAttempts)
        /\ tokenLoops' = [tokenLoops EXCEPT ![l] = [pc |-> "sleep", key |-> "none"]]
        /\ UNCHANGED <<tokenWorkerRunning, tokenReqsLeft, tokenResp, now, quietForTokens>>

TokenTick ==
    /\ now < MaxTokenNow
    /\ now' = now + TokenStep
    /\ UNCHANGED <<tokenVars, quietForTokens>>

\* Token m2 was computed more than an hour ago; m1 has never been asked for.
InitTokens ==
    /\ ledger = [s \in Sigs |-> [slot |-> 1, from |-> NoAcct, to |-> "W1", amount |-> 1]]
    /\ opsLeft = 0
    /\ wallets = <<>>
    /\ transactions = <<>>
    /\ kQueue = <<>>
    /\ oneUsdThreshold = NULL
    /\ isPolling = FALSE
    /\ pullLastSlot = 0
    /\ now = TokenEpoch
    /\ applied = [c \in Sigs \X Wallets |-> 0]
    /\ wslot = [a \in Wallets |-> [last |-> 0, max |-> 0]]
    /\ batchSlots = <<>>
    /\ holderLog = {}
    /\ hadPositive = {}
    /\ lastK = NULL
    /\ snapshots = <<>>
    /\ kResult = NoResult
    /\ InitWorkerIdle
    /\ InitRateIdle
    /\ polls = 0
    /\ InitHooksIdle
    /\ InitWsIdle
    /\ InitHttpIdle
    /\ InitKeysIdle
    /\ InitMemIdle
    /\ tokens = ("m2" :> [k |-> 50, last_sync |-> 0, sync_status |-> "ready"])
    /\ tokenQueue = <<>>
    /\ tokenLoops = [l \in 1..MaxTokenLoops |-> [pc |-> "none", key |-> "none"]]
    /\ tokenWorkerRunning = FALSE
    /\ tokenReqsLeft = MaxTokenReqs
    /\ tokenResp = NoTokenAnswer

NextTokens ==
    \/ handleApiV1Token
    \/ tokenStartWorker
    \/ tokenStopWorker
    \/ TokenLoopWake
    \/ TokenCalcDone
    \/ TokenTick

SpecTokens == InitTokens /\ [][NextTokens]_vars

\* The loop's 30 s timer fires and a started calculation settles.
SpecTokensLive == SpecTokens /\ WF_vars(TokenLoopWake) /\ WF_vars(TokenCalcDone)

(***************************************************************************)
(* wallet-score: the in-memory background walletQueue                            *)
(***************************************************************************)

\* CACHE_TTL, QUEUE_TIMEOUT (milliseconds in the code), in seconds.
CACHE_TTL == 3600
QUEUE_TIMEOUT == 300
MAX_CONCURRENT == 3

quietForMem == <<ledger, wallets, transactions, kQueue, oneUsdThreshold, isPolling,
                 pullLastSlot, opsLeft, applied, wslot, batchSlots, holderLog, hadPositive, lastK,
                 snapshots, kResult, workerVars, rateVars, polls, hookVars, wsVars,
                 httpVars, keyVars, tokenVars>>

\* Map.get: the entry of an address in a one-element sequence, <<>> for undefined.
MapGet(q, address) == SelectSeq(q, LAMBDA e : e.address = address)

\* Map.set: an existing key keeps its place in the iteration order, a new one
\* goes last.
MapSet(q, address, status, startedAt) ==
    LET entry == [address |-> address, status |-> status, started_at |-> startedAt]
    IN  IF MapGet(q, address) # <<>>
        THEN [i \in DOMAIN q |-> IF q[i].address = address THEN entry ELSE q[i]]
        ELSE Append(q, entry)

MapDelete(q, address) == SelectSeq(q, LAMBDA e : e.address # address)

\* `cached && Date.now() - cached.calculated_at < CACHE_TTL`
CacheFresh(c, address, t) == c[address] # NULL /\ t - c[address] < CACHE_TTL

\* processQueue(): nothing at the concurrency cap; else the first 'queued' entry
\* in iteration order is marked 'calculating' and its calculation is started.
processQueue(q, active, calcs) ==
    LET queued == { i \in DOMAIN q : q[i].status = "queued" }
    IN  IF active >= MAX_CONCURRENT \/ queued = {}
        THEN [q |-> q, active |-> active, calcs |-> calcs]
        ELSE LET i == CHOOSE x \in queued : \A y \in queued : x <= y
             IN  [q |-> MapSet(q, q[i].address, "calculating", q[i].started_at),
                  active |-> active + 1,
                  calcs |-> Append(calcs, [address |-> q[i].address,
                                           started_at |-> q[i].started_at])]

SetMem(r) ==
    /\ walletQueue' = r.q
    /\ activeCalculations' = r.active
    /\ inFlight' = r.calcs

getWalletStatus ==
    /\ memOpsLeft > 0
    /\ memOpsLeft' = memOpsLeft - 1
    /\ \E address \in MemAddrs :
          LET queued == MapGet(walletQueue, address)
          IN  IF /\ ~CacheFresh(walletCache, address, now)
                 /\ queued # <<>>
                 /\ now - queued[1].started_at > QUEUE_TIMEOUT
              THEN walletQueue' = MapDelete(walletQueue, address)
              ELSE UNCHANGED walletQueue
    /\ UNCHANGED <<walletCache, activeCalculations, inFlight, now, quietForMem>>

queueWalletCalculation ==
    /\ memOpsLeft > 0
    /\ memOpsLeft' = memOpsLeft - 1
    /\ \E address \in MemAddrs :
          LET queued == MapGet(walletQueue, address)
          IN  IF CacheFresh(walletCache, address, now)
              THEN UNCHANGED <<walletQueue, activeCalculations, inFlight>>
              ELSE IF queued # <<>> /\ now - queued[1].started_at < QUEUE_TIMEOUT
              THEN UNCHANGED <<walletQueue, activeCalculations, inFlight>>
              ELSE SetMem(processQueue(MapSet(walletQueue, address, "queued", now),
                                       activeCalculations, inFlight))
    /\ UNCHANGED <<walletCache, now, quietForMem>>

\* A calculation settles: .then (walletCache the result, delete the entry) or .catch
\* (mark the entry 'error' with the start time read when it was started), then
\* .finally (decrement, processQueue).
MemCalcSettles ==
    \E i \in DOMAIN inFlight :
        LET c == inFlight[i]
            rest == SubSeq(inFlight, 1, i - 1) \o SubSeq(inFlight, i + 1, Len(inFlight))
        IN  \/ /\ walletCache' = [walletCache EXCEPT ![c.address] = now]
               /\ SetMem(processQueue(MapDelete(walletQueue, c.address),
                                      activeCalculations - 1, rest))
            \/ /\ UNCHANGED walletCache
               /\ SetMem(processQueue(MapSet(walletQueue, c.address, "error", c.started_at),
                                      activeCalculations - 1, rest))
    /\ UNCHANGED <<memOpsLeft, now, quietForMem>>

MemTick ==
    /\ now < MaxMemNow
    /\ now' = now + MemStep
    /\ UNCHANGED <<memVars, quietForMem>>

InitMem ==
    /\ ledger = [s \in Sigs |-> [slot |-> 1, from |-> NoAcct, to |-> "W1", amount |-> 1]]
    /\ opsLeft = 0
    /\ InitStore
    /\ InitWorkerIdle
    /\ InitRateIdle
    /\ polls = 0
    /\ InitHooksIdle
    /\ InitWsIdle
    /\ InitHttpIdle
    /\ InitKeysIdle
    /\ InitTokensIdle
    /\ walletCache = [a \in MemAddrs |-> NULL]
    /\ walletQueue = <<>>
    /\ activeCalculations = 0
    /\ inFlight = <<>>
    /\ memOpsLeft = MaxMemOps

NextMem ==
    \/ getWalletStatus
    \/ queueWalletCalculation
    \/ MemCalcSettles
    \/ MemTick

SpecMem == InitMem /\ [][NextMem]_vars

(***************************************************************************)
(* Claims                                                                  *)
(***************************************************************************)

\* C1: ingest idempotence.  Whatever mix of push and pull batches carries a
\* signature, each of its balance changes is written to its wallet at most once
\* and leaves at most one transactions row.
IngestIdempotent ==
    \A s \in Sigs, a \in Wallets :
        /\ applied[<<s, a>>] <= 1
        /\ Cardinality({ k \in DOMAIN transactions :
                           k[1] = s /\ transactions[k].wallet = a }) <= 1

\* C2: slot monotonicity.  No change older than a change already applied to a
\* wallet alters that wallet's currentBalance, firstBuyTs, firstBuyAmount,
\* peakBalance or lastTxSignature: the last change that wrote the row is the
\* newest one applied to it.
SlotMonotonic ==
    \A a \in Wallets : wslot[a].last = wslot[a].max

\* The rows of `new` keep peak >= balance and no row's peak is below its peak in `old`.
PeakKept(old, new) ==
    \A a \in DOMAIN new :
        /\ new[a].peak_balance >= new[a].current_balance
        /\ a \in DOMAIN old => new[a].peak_balance >= old[a].peak_balance

\* Every single Store write that can be issued on the current table.
EveryWriteKeepsPeak ==
    \A a \in Wallets, b \in 0..(MaxAmt + 1) :
        /\ PeakKept(wallets, dbUpdateWalletBalance(wallets, a, b))
        /\ \A ts \in {NULL, 1001}, f \in 0..MaxAmt :
              PeakKept(wallets, upsertWallet(wallets,
                          [address |-> a, balance |-> b, firstBuyTs |-> ts,
                           firstBuyAmount |-> f, received |-> f, sent |-> 0,
                           lastTxSig |-> NoSig]))

\* C9: peak invariant.  Every wallet row has peakBalance >= currentBalance at all
\* times, and no Store write (inside a batch or alone) lowers a row's peakBalance.
PeakInvariant ==
    /\ [](PeakKept(wallets, wallets) /\ EveryWriteKeepsPeak)
    /\ [][PeakKept(wallets, wallets')]_vars

\* A wallet that bought and then sold: its peak stands above its balance.
PeakAboveBalance ==
    \E a \in DOMAIN wallets :
        /\ wallets[a].peak_balance > wallets[a].current_balance
        /\ \E s \in Sigs : applied[<<s, a>>] > 0

\* C10: first-buy write-once.  Once a wallet has had a positive delta applied, no
\* later event (ingest, holder-delta sync, manual sync) changes its firstBuyTs or
\* its firstBuyAmount.
FirstBuyWriteOnce ==
    [][\A a \in hadPositive :
          /\ wallets'[a].first_buy_ts = wallets[a].first_buy_ts
          /\ wallets'[a].first_buy_amount = wallets[a].first_buy_amount]_vars

\* C7: classification total law.  In every K result the four class counts add up
\* to the holder count.
ClassificationTotalLaw ==
    (kResult.source # "none" /\ kResult.accumulators # NULL) =>
        kResult.accumulators + kResult.maintained + kResult.partialSellers
            + kResult.majorSellers = kResult.holders

\* C8: in every K result, K = round(100 * (accumulators + maintained) / holders)
\* over the counts of that same result.
KFromReportedCounts ==
    (kResult.source # "none" /\ kResult.k # NULL /\ kResult.holders > 0) =>
        kResult.k = (200 * (kResult.accumulators + kResult.maintained) + kResult.holders)
                        \div (2 * kResult.holders)

AllowedIn(i, from, to) ==
    Cardinality({ n \in DOMAIN allowedAt[i] : from <= allowedAt[i][n] /\ allowedAt[i][n] < to })

\* C5: rate-limit ceiling (minute).  For every identifier, the allowed responses
\* in any window of one RateLimitWindow, wherever it starts, number at most its
\* tier's per-minute limit.
MinuteCeiling ==
    \A i \in Identifiers, t \in 0..MaxTime :
        AllowedIn(i, t, t + RateLimitWindow) <= TIER_LIMITS[ApiKeyMeta(i).tier].minute

\* C6: rate-limit ceiling (day).  For every identifier, the allowed responses in
\* any UTC day number at most its tier's per-day limit.
DayCeiling ==
    \A i \in Identifiers, d \in 0..(MaxTime \div DayLength) :
        AllowedIn(i, d * DayLength, (d + 1) * DayLength) <= TIER_LIMITS[ApiKeyMeta(i).tier].day

\* A delivery row in a terminal status.
Terminal(d) == d.status \in {"success", "failed"}

\* Delivery id is in the list of some processDeliveries activation of rs.
SelectedBy(rs, id) ==
    \E r \in 1..MaxRuns : \E n \in DOMAIN rs[r] : rs[r][n].id = id

\* C11: terminal deliveries do not reschedule.  Once a delivery has status
\* success or failed, no later step changes its status and no later
\* processDeliveries selects it for sending.
TerminalDeliveriesRest ==
    [][\A id \in DOMAIN deliveries :
          Terminal(deliveries[id]) =>
              /\ deliveries'[id].status = deliveries[id].status
              /\ ~SelectedBy(runs, id) => ~SelectedBy(runs', id)]_vars

\* No POST of delivery id is outstanding and none will be made: it is in no
\* activation's list and the pending query can never return it again.
Ended(id) ==
    /\ ~SelectedBy(runs, id)
    /\ deliveries[id].status # "pending" \/ deliveries[id].attempts >= MaxSendAttempts

\* C12: a delivery whose every POST failed ends with attempts = 3, status failed,
\* nextRetryAt null, and one increment of its subscription's failureCount.
FailedCascade ==
    \A id \in DOMAIN deliveries :
        (hookLog[id].oks = 0 /\ Ended(id)) =>
            /\ deliveries[id].attempts = 3
            /\ deliveries[id].status = "failed"
            /\ deliveries[id].next_retry_at = NULL
            /\ hookLog[id].failIncs = 1

\* C13: auto-disable.  In every reachable state a subscription with
\* failureCount >= 5 has isActive = 0.
AutoDisabled ==
    \A i \in DOMAIN subs : subs[i].failure_count >= 5 => subs[i].is_active = 0

\* A subscription that a failed cascade has taken to five failures and switched off.
FifthCascadeDisabled ==
    \E i \in DOMAIN subs :
        /\ subs[i].failure_count >= 5
        /\ subs[i].is_active = 0
        /\ \E id \in DOMAIN deliveries :
              /\ deliveries[id].subscription_id = i
              /\ deliveries[id].status = "failed"
              /\ hookLog[id].failIncs > 0

\* C14: after every ingest batch (push or pull) the K Calculator runs and, when
\* the new K is at least one point away from the last persisted K, a k_change
\* event is dispatched: the subscriber gets a delivery.
KChangeAfterBatch ==
    [][(PushBatch \/ PullFinish) =>
          LET data == calculate(wallets', oneUsdThreshold')
              delta == data.k - lastK
          IN  (/\ lastK # NULL
               /\ data # NoResult
               /\ (delta >= 1 \/ delta <= -1)
               /\ getSubscriptionsForEvent(subs, "k_change") # {})
                  => Len(deliveries') > Len(deliveries)]_vars

\* C15: one pull in flight.  At no moment are two executions of
\* fetchNewTransactions (timer tick, delayed first poll, syncNow) past the
\* isPolling guard.
SinglePollInFlight == polls <= 1

\* A pull is past the guard while the store already holds ingested rows.
PollInFlight == polls = 1 /\ isPolling /\ transactions # <<>>

\* C16: lastProcessedSlot, the MAX(slot) of the transactions table, never
\* decreases over any sequence of ingest operations.
WatermarkMonotonic ==
    [][getLastProcessedSlot(transactions') >= getLastProcessedSlot(transactions)]_vars

\* The watermark has moved twice: rows of two different slots are recorded.
WatermarkAdvanced ==
    \E k1, k2 \in DOMAIN transactions : transactions[k1].slot < transactions[k2].slot

\* Address a was dequeued by a loop of ls that has neither completed nor failed it.
HeldIn(ls, a) == \E l \in 1..MaxLoops : ls[l].pc = "calc" /\ ls[l].key = a

\* dequeueKWallet's WHERE clause on the row of a at time t.
Available(q, a, t) ==
    a \in DOMAIN q /\ (q[a].locked_until = NULL \/ q[a].locked_until < t)

\* C17: leases expire and are reclaimable, and not before.  While a key is held
\* (dequeued, neither Completed nor Failed) and its lease has not run out, no
\* step makes it available to Dequeue; once the lease has run out it is available.
LeaseReclaim ==
    /\ [][\A a \in Wallets :
            (/\ HeldIn(loops, a) /\ HeldIn(loops', a)
             /\ a \in DOMAIN kQueue
             /\ kQueue[a].locked_until # NULL
             /\ now' <= kQueue[a].locked_until)
                => ~Available(kQueue', a, now')]_vars
    /\ [](\A a \in Wallets :
            (/\ HeldIn(loops, a)
             /\ a \in DOMAIN kQueue
             /\ kQueue[a].locked_until # NULL
             /\ now > kQueue[a].locked_until)
                => Available(kQueue, a, now))

\* The connections registered under a key.
ConnsOf(key) == IF key \in DOMAIN keyConnections THEN keyConnections[key] ELSE {}

\* C18: no key ever has more than MAX_CONNECTIONS_PER_KEY registered connections,
\* and an upgrade request that arrives while its key holds that many is answered
\* 429 and is not registered.
ConnectionCap ==
    /\ [](\A key \in {"kf", "kp"} :
            /\ Cardinality(ConnsOf(key)) <= MAX_CONNECTIONS_PER_KEY
            /\ Cardinality({ s \in DOMAIN clients : clients[s].key = key })
                 <= MAX_CONNECTIONS_PER_KEY)
    /\ [][\A s \in fresh :
            (s \notin fresh'
               /\ Cardinality(ConnsOf(KeyOf(s))) >= MAX_CONNECTIONS_PER_KEY)
            => /\ s \notin DOMAIN clients'
               /\ \A key \in DOMAIN keyConnections' : s \notin keyConnections'[key]
               /\ wire'.to[s] = {"429"}]_vars

\* An upgrade was just rejected while its key holds the maximum.
UpgradeRejectedAtCap ==
    \E s \in Sockets :
        /\ wire.to[s] = {"429"}
        /\ Cardinality(ConnsOf(KeyOf(s))) = MAX_CONNECTIONS_PER_KEY
        /\ s \notin DOMAIN clients

\* A socket is in neither the registry nor any key's connection set.
Unregistered(s) ==
    /\ s \notin DOMAIN clients
    /\ \A key \in DOMAIN keyConnections : s \notin keyConnections[key]

\* C19: when the heartbeat runs, every connection whose last pong is more than
\* HEARTBEAT_TIMEOUT old is sent a close frame, and it is then removed from the
\* registry and from its key's connection set.
HeartbeatDrops ==
    /\ [][(WsTick /\ HeartbeatDue)
            => \A s \in DOMAIN clients :
                  Aged(clients[s].age) > HEARTBEAT_TIMEOUT
                  => /\ wire'.to[s] = {"close"}
                     /\ s \in closing']_vars
    /\ \A s \in Sockets : (s \in closing) ~> Unregistered(s)
    /\ \A s \in Sockets :
          (s \in DOMAIN clients /\ clients[s].age > HEARTBEAT_TIMEOUT)
             ~> (s \notin DOMAIN clients \/ clients[s].age <= HEARTBEAT_TIMEOUT)

\* The heartbeat has just sent a close frame to a timed-out connection.
HeartbeatClosing ==
    \E s \in closing :
        /\ s \in DOMAIN clients
        /\ clients[s].age > HEARTBEAT_TIMEOUT
        /\ wire.to[s] = {"close"}

\* C20: for every minTier of the order public < free < standard < premium <
\* internal, broadcastToTier writes only to connections of that tier or above.
TierFilter ==
    \A s \in Sockets :
        (wire.minTier # "none" /\ wire.to[s] # {})
        => /\ s \in DOMAIN clients
           /\ indexOf(tierOrder, clients[s].tier) >= indexOf(tierOrder, wire.minTier)

\* A broadcast reached one connection and skipped another of a lower tier.
TierFiltered ==
    /\ wire.minTier # "none"
    /\ \E s, t \in DOMAIN clients : wire.to[s] = {"event"} /\ wire.to[t] = {}

\* C21: an unmasked frame received from a client is rejected: no frame that
\* handleData dispatches (as text, ping, pong or close) lacks the masked bit.
UnmaskedRejected ==
    \A i \in DOMAIN rx.frames : rx.frames[i].masked

\* C22: with a webhook secret configured, an admitted POST /k-metric/webhook whose
\* X-Helius-Signature is not the HMAC-SHA256 of the body (absent, of another
\* length, or a wrong digest) is answered 401 and its events are not handed to
\* the pipeline.
SignatureMismatch401 ==
    (/\ resp.route = "POST /k-metric/webhook"
     /\ env.secret # ""
     /\ resp.signed # "match"
     /\ resp.status # 429)
    => (resp.status = 401 /\ ~resp.handed)

\* C23: in production with no webhook secret configured, no POST /k-metric/webhook
\* is accepted and no batch is applied to the Store.
ProductionRefusesUnsigned ==
    (/\ resp.route = "POST /k-metric/webhook"
     /\ env.production
     /\ env.secret = "")
    => (resp.status # 200 /\ ~resp.handed)

\* C24: an admitted request that presents an X-Oracle-Key which is unknown,
\* inactive or expired is answered 401.
InvalidKey401 ==
    (resp.key \in {"ku", "ki", "kx"} /\ resp.status # 429)
    => resp.status = 401

MinuteLimitOf(i) == TIER_LIMITS[ApiKeyMeta(i).tier].minute

\* C25: for an identity with per-minute limit L and no earlier requests, of L+1
\* requests issued within one window (60 s) the first L are allowed and the
\* (L+1)-th is answered 429 with reason minute_limit_exceeded, Retry-After > 0 and
\* X-RateLimit-Remaining = 0.
MinuteLimitScenario ==
    \A i \in Identifiers :
        LET log == reqLog[i]
            L == MinuteLimitOf(i)
        IN  (Len(log) > L /\ log[L + 1].at - log[1].at <= RateLimitWindow)
            => /\ \A k \in 1..L : log[k].status = 200
               /\ log[L + 1].status = 429
               /\ log[L + 1].reason = "minute_limit_exceeded"
               /\ log[L + 1].retryAfter > 0
               /\ log[L + 1].remaining = 0

\* The transactions rows recorded for the change of signature sig to wallet a.
RowsFor(sig, a) ==
    { k \in DOMAIN transactions : k[1] = sig /\ transactions[k].wallet = a }

\* C27: a change whose transactions row already existed does not reach
\* UpsertWallet: the wallet writes made for a change never outnumber the rows
\* inserted for it.
DedupGuard ==
    \A sig \in Sigs, a \in Wallets :
        applied[<<sig, a>>] <= Cardinality(RowsFor(sig, a))

\* C28: an Enqueue of a key that is leased (lockedUntil > now) and still held by
\* its worker leaves lockedUntil as it is.
EnqueueKeepsLease ==
    [][\A a \in Wallets :
          (/\ a \in DOMAIN kQueue
           /\ kQueue[a].locked_until # NULL
           /\ kQueue[a].locked_until > now
           /\ HeldIn(loops, a) /\ HeldIn(loops', a)
           /\ enqueued'[a] > enqueued[a])
          => (a \in DOMAIN kQueue'
                /\ kQueue'[a].locked_until = kQueue[a].locked_until)]_vars

\* The worker's own enqueues (refreshStaleWallets, backfillAllHolders) select from
\* table wallets the rows that hold MinBalanceFallback: only such a key can come
\* back into the queue without a new request.
Reenqueueable(a) ==
    a \in DOMAIN wallets /\ wallets[a].current_balance >= MinBalanceFallback

\* C29: no enqueue is lost.  A key with an Enqueue that no computation has
\* started after (and that Cleanup has not dropped) is still in the queue, or it
\* is a row the worker itself will enqueue again; from any other state no step of
\* the worker ever computes the key, so the Enqueue is never followed by its
\* computation.  The two cases the claim singles out are the Enqueue that arrives
\* between Dequeue and Complete of the key and the keys queued at a (re)start.
NoEnqueueLost ==
    \A a \in owed : a \in DOMAIN kQueue \/ Reenqueueable(a)

\* C30: within every incoming batch, push or pull, the changes are applied to the
\* Store in ascending slot order: the slots of the changes the last batch applied
\* never step down.
BatchInSlotOrder ==
    \A i, j \in DOMAIN batchSlots : i < j => batchSlots[i] <= batchSlots[j]

\* The processDeliveries activations that are awaiting the POST of delivery id:
\* the row an activation is sending is the head of its list.
Sending(rs, id) == { r \in 1..MaxRuns : rs[r] # <<>> /\ Head(rs[r]).id = id }

\* The POSTs made for delivery id so far: every settled POST has added one to
\* the row's attempts (updateWebhookDelivery), the others are in flight.
PostsOf(id) == deliveries[id].attempts + Cardinality(Sending(runs, id))

\* C31: each delivery is POSTed at most 3 times over its lifetime, and never by
\* two processDeliveries runs at the same time, wherever the 30 s ticks fall
\* relative to the duration of a run.
PostedThriceSingly ==
    \A id \in DOMAIN deliveries :
        /\ PostsOf(id) <= MaxSendAttempts
        /\ Cardinality(Sending(runs, id)) <= 1

\* The step issues a POST of delivery id: an activation's list changed and id is
\* at its head (a new list's first row, or the next row after a settled POST).
PostIssued(id) ==
    \E r \in 1..MaxRuns :
        /\ runs'[r] # runs[r]
        /\ runs'[r] # <<>>
        /\ Head(runs'[r]).id = id

\* C33: after the n-th failed attempt of a delivery (n = 1, 2) the delivery is
\* pending with nextRetryAt = now + backoff[n-1] (60 s, then 300 s), and it is
\* not POSTed again before nextRetryAt.
RetryBackoff ==
    [][\A id \in DOMAIN deliveries :
          /\ (/\ deliveries'[id].attempts = deliveries[id].attempts + 1
              /\ deliveries'[id].status # "success"
              /\ deliveries'[id].attempts \in {1, 2})
                 => /\ deliveries'[id].status = "pending"
                    /\ deliveries'[id].next_retry_at =
                          now + RETRY_DELAYS[deliveries'[id].attempts]
          /\ PostIssued(id)
                 => \/ deliveries'[id].next_retry_at = NULL
                    \/ deliveries'[id].next_retry_at <= now']_vars

\* C34: after a subscription has been deactivated (isActive = 0 or
\* failureCount >= 5) no further POST is made to its URL, also not for the
\* deliveries that were pending or awaiting retry when it was deactivated.
NoPostAfterDeactivation ==
    [][\A id \in DOMAIN deliveries :
          PostIssued(id) =>
              LET i == deliveries[id].subscription_id
              IN  subs'[i].is_active = 1 /\ subs'[i].failure_count < 5]_vars

\* The api_keys row of key is active and its expiry, if any, has not passed.
KeyInForce(tbl, key, t) ==
    /\ key \in DOMAIN tbl
    /\ tbl[key].is_active = 1
    /\ (tbl[key].expires_at = NULL \/ tbl[key].expires_at > t)

\* C32: once revokeApiKey(id) has returned true, or the key's expiresAt has
\* passed, every later validateApiKey call with that key returns null: a call
\* returns a row only for a key that is active and unexpired at the call.
RevokedKeyRefused ==
    [][(keyLog'.n > keyLog.n /\ keyLog'.accepted)
          => KeyInForce(apiKeys, keyLog'.key, now)]_vars

\* Whenever a token's sync_status is 'queued' or 'syncing', token_queue holds a
\* row for that mint, whatever the order of the getTokenK requests and the
\* worker's dequeue, complete, fail and cleanup.
QueuedTokenHasRow ==
    \A mint \in DOMAIN tokens :
        tokens[mint].sync_status \in {"queued", "syncing"} => mint \in DOMAIN tokenQueue

\* tokens.sync_status of mint, "none" without a row.
StatusOf(mint) == IF mint \in DOMAIN tokens THEN tokens[mint].sync_status ELSE "none"

\* C35, with its consequence: a token that is 'queued' or 'syncing' has its
\* queue row, and so, while the worker is left running, it is eventually
\* computed ('ready') or marked 'error'.
QueuedTokenServed ==
    /\ []QueuedTokenHasRow
    /\ \A mint \in Mints :
          (StatusOf(mint) \in {"queued", "syncing"} /\ tokenWorkerRunning)
             ~> (StatusOf(mint) \in {"ready", "error"} \/ ~tokenWorkerRunning)

\* A request was answered `queued` for a token that had failed before: its
\* queue row carries the earlier attempts, and the status is 'queued' again.
RequeuedAfterFailure ==
    \E mint \in DOMAIN tokens :
        /\ tokenResp = [mint |-> mint, status |-> "queued"]
        /\ tokens[mint].sync_status = "queued"
        /\ mint \in DOMAIN tokenQueue
        /\ tokenQueue[mint].attempts > 0

\* wallet-score.getKWalletFromDB(address): the stored score of a wallets row, <<>>
\* for its null (no row, or a row whose k_wallet is NULL).
getKWalletFromDB(ws, cols, address) ==
    IF address \notin DOMAIN ws \/ cols[address].k_wallet = NULL
    THEN <<>>
    ELSE <<[k_wallet |-> cols[address].k_wallet,
            updated_at |-> cols[address].updated_at,
            poh_slot |-> cols[address].slot]>>

\* C36: Complete persists the score.  For every address, holder or not, whose
\* last Complete carried a score, getKWalletFromDB(address) returns that score.
CompletePersistsScore ==
    \A a \in Wallets :
        calcHist[a].score # NULL =>
            /\ getKWalletFromDB(wallets, kwCols, a) # <<>>
            /\ getKWalletFromDB(wallets, kwCols, a)[1].k_wallet = calcHist[a].score

HolderEventsExact ==
    \A e \in holderLog :
        /\ e.event = "holder:new" <=> ~e.was /\ e.is
        /\ e.event = "holder:exit" <=> e.was /\ ~e.is

\* C40: the in-memory walletQueue.  No two calculations in progress are of the same
\* address, and activeCalculations never exceeds MAX_CONCURRENT.
OneCalculationPerAddress ==
    /\ \A i, j \in DOMAIN inFlight : i # j => inFlight[i].address # inFlight[j].address
    /\ activeCalculations <= MAX_CONCURRENT
====
